---- MODULE Spec2Model ----
(***************************************************************************)
(* Verification model of respu/lean:                                       *)
(*   - the rewrite tactic engine  (src/library/tactic/rewrite_tactic.cpp)  *)
(*   - the let-value macro id generator (src/library/let.cpp)              *)
(*                                                                         *)
(* Terms are abstracted to what the engine observes of them: a relation    *)
(* head (eq / iff / true / other) and the sequence of closed subterms in   *)
(* the visiting order of for_each.  A subterm carries its head symbol and  *)
(* the answer the external unifier gives when the rule is unified with it. *)
(***************************************************************************)
EXTENDS Integers, Sequences, FiniteSets, TLC

(***************************************************************************)
(* Bounds of the model.                                                    *)
(***************************************************************************)
MaxIterBound == 3      \* rewriter.max_iter ranges over 0..MaxIterBound
MaxNum       == 3      \* the count n of AtMostN(n)/ExactlyN(n) ranges over 0..MaxNum
MaxSteps     == 2      \* length of the step list of one invocation
NumThreads   == 2      \* threads minting let-value ids
IdWidth      == 2      \* bits of the unsigned id counter in the model
MaxArgs      == 3      \* sub-term counts 0..MaxArgs reach a macro deserializer
MaxTrips     == 3      \* nodes built and sent through one writer/reader pair
MaxCtx       == 3      \* locals in a local context
MaxBlocks    == 3      \* blocks the general allocator hands to the pool's caller
MaxLvls      == 2      \* domain levels handed to mk_result_level
MaxToks      == 3      \* tokens of the input consume_until_end runs on

(***************************************************************************)
(* Environment: symbols and their definitions.                             *)
(* "d1" is defined as "a", "d2" as "d1"; "m" stands for a term with an     *)
(* unassigned metavariable (normalising or comparing it leaves             *)
(* constraints behind).                                                    *)
(***************************************************************************)
Syms == {"a", "b", "c", "d1", "d2", "m"}

HasDef(s) == s \in {"d1", "d2"}

DefBody(s) == IF s = "d1" THEN "a" ELSE IF s = "d2" THEN "d1" ELSE s

UOutcomes == {"ok", "unif", "mvars", "exc", "assign", "symm_exc"}

Sub(s, u) == [sym |-> s, u |-> u]

Ok(s) == Sub(s, "ok")

Term(rel, args) == [rel |-> rel, args |-> args]

TrueProp == Term("true", <<>>)

(* subterm symbols of a term *)
SymsOf(t) == {t.args[j].sym : j \in 1..Len(t.args)}

(***************************************************************************)
(* rewriter_converter::is_opaque and normalize: only the named constants   *)
(* are unfolded; every query on a named constant sets the flag.            *)
(***************************************************************************)
RECURSIVE NormSym(_, _)
NormSym(s, to_unfold) ==
    IF HasDef(s) /\ s \in to_unfold THEN NormSym(DefBody(s), to_unfold) ELSE s

normalize(e, to_unfold) ==
    Term(e.rel, [j \in 1..Len(e.args) |->
                    Sub(NormSym(e.args[j].sym, to_unfold), e.args[j].u)])

(* the converter was asked about a named constant while normalising e *)
Queried(e, to_unfold) == \E s \in SymsOf(e) : HasDef(s) /\ s \in to_unfold

(* constraint_seq left behind by the type checker *)
LeavesConstraints(e) == "m" \in SymsOf(e)

(* variant: the unfolded flag starts out true *)
reduce_flag_set(e, to_unfold) ==
    IF LeavesConstraints(e) THEN [ok |-> FALSE, val |-> e]
                            ELSE [ok |-> TRUE,  val |-> normalize(e, to_unfold)]

(* rewrite_fn::reduce : [ok |-> FALSE] when it fails, the normal form otherwise *)
reduce(e, to_unfold) ==
    LET unfolded == (to_unfold = {}) \/ Queried(e, to_unfold)
        cs       == LeavesConstraints(e)
        r        == normalize(e, to_unfold)
    IN  IF ~unfolded \/ cs THEN [ok |-> FALSE, val |-> e]
                            ELSE [ok |-> TRUE,  val |-> r]

(***************************************************************************)
(* Occurrences and locations (library/tactic/location.h).                  *)
(***************************************************************************)
HypNames == {"h1", "h2"}

NoOcc == [some |-> FALSE, all |-> FALSE, idxs |-> {}]

OccAll == [some |-> TRUE, all |-> TRUE, idxs |-> {}]

OccPos(S) == [some |-> TRUE, all |-> FALSE, idxs |-> S]

occ_contains(occ, i) == occ.all \/ i \in occ.idxs

LocGoalOnly == [gonly |-> TRUE, gocc |-> OccAll, hocc |-> [n \in HypNames |-> NoOcc]]

LocGoalOcc(occ) == [gonly |-> TRUE, gocc |-> occ, hocc |-> [n \in HypNames |-> NoOcc]]

LocHyps(S, withGoal) ==
    [gonly |-> FALSE,
     gocc  |-> IF withGoal THEN OccAll ELSE NoOcc,
     hocc  |-> [n \in HypNames |-> IF n \in S THEN OccAll ELSE NoOcc]]

is_goal_only(loc) == loc.gonly

includes_goal(loc) == loc.gocc

includes_hypothesis(loc, n) == loc.hocc[n]

(***************************************************************************)
(* Goals and the working copy (m_g, m_subst, m_ngen, m_trace.m_targets).   *)
(***************************************************************************)
Hyp(n, t) == [name |-> n, type |-> t]

Goal(mv, hyps, type) == [mvar |-> mv, hyps |-> hyps, type |-> type]

Work(g, subst, ngen, targs) == [g |-> g, subst |-> subst, ngen |-> ngen, targs |-> targs]

(* assign(m_subst, m_g, proof) *)
assign(subst, g, by) == subst \cup {<<g.mvar, by>>}

(* rewrite_fn::replace_goal and the tail of process_rewrite_goal *)
replace_goal(w, new_type, by) ==
    [w EXCEPT !.g     = Goal(w.ngen, w.g.hyps, new_type),
              !.subst = assign(w.subst, w.g, by),
              !.ngen  = w.ngen + 1]

(* rewrite_fn::replace_hypothesis and the tail of process_rewrite_hypothesis *)
replace_hypothesis(w, hname, new_hyp_type, by) ==
    [w EXCEPT !.g     = Goal(w.ngen,
                             [j \in 1..Len(w.g.hyps) |->
                                 IF w.g.hyps[j].name = hname
                                 THEN Hyp(hname, new_hyp_type) ELSE w.g.hyps[j]],
                             w.g.type),
              !.subst = assign(w.subst, w.g, by),
              !.ngen  = w.ngen + 1]

(***************************************************************************)
(* Unfold / reduce steps.                                                  *)
(***************************************************************************)
process_reduce_goal(w, to_unfold) ==
    LET r == reduce(w.g.type, to_unfold)
    IN  IF r.ok THEN [ok |-> TRUE,  w |-> replace_goal(w, r.val, "M")]
                ELSE [ok |-> FALSE, w |-> w]

process_reduce_hypothesis(w, h, to_unfold) ==
    LET r == reduce(h.type, to_unfold)
    IN  IF r.ok THEN [ok |-> TRUE,  w |-> replace_hypothesis(w, h.name, r.val, "M")]
                ELSE [ok |-> FALSE, w |-> w]

(* the loop over the hypotheses snapshot taken by get_hyps, from index k on *)
RECURSIVE ReduceHyps(_, _, _, _, _, _)
ReduceHyps(w, hyps, k, to_unfold, loc, progress) ==
    IF k > Len(hyps) THEN [ok |-> progress, w |-> w]
    ELSE IF ~includes_hypothesis(loc, hyps[k].name).some
         THEN ReduceHyps(w, hyps, k + 1, to_unfold, loc, progress)
         ELSE LET r == process_reduce_hypothesis(w, hyps[k], to_unfold)
              IN  ReduceHyps(r.w, hyps, k + 1, to_unfold, loc, progress \/ r.ok)

process_reduce_step_names(w, to_unfold, loc) ==
    IF is_goal_only(loc) THEN process_reduce_goal(w, to_unfold)
    ELSE LET hs == ReduceHyps(w, w.g.hyps, 1, to_unfold, loc, FALSE)
         IN  IF includes_goal(loc).some
             THEN LET r == process_reduce_goal(hs.w, to_unfold)
                  IN  [ok |-> hs.ok \/ r.ok, w |-> r.w]
             ELSE hs

process_unfold_step(w, elem) == process_reduce_step_names(w, elem.names, elem.loc)

(***************************************************************************)
(* Reduce-to steps: unify the target with the elaborated extra term.       *)
(***************************************************************************)
RECURSIVE FullNorm(_)
FullNorm(s) == IF HasDef(s) THEN FullNorm(DefBody(s)) ELSE s

is_def_eq(t, e) ==
    /\ t.rel = e.rel
    /\ Len(t.args) = Len(e.args)
    /\ \A j \in 1..Len(t.args) : FullNorm(t.args[j].sym) = FullNorm(e.args[j].sym)

unify_with(w, t, e) ==
    IF ~is_def_eq(t, e) THEN [ok |-> FALSE, val |-> t]
    ELSE IF LeavesConstraints(e) THEN [ok |-> FALSE, val |-> t]
    ELSE [ok |-> TRUE, val |-> e]

process_reduce_to_goal(w, e) ==
    LET r == unify_with(w, w.g.type, e)
    IN  IF r.ok THEN [ok |-> TRUE,  w |-> replace_goal(w, r.val, "M")]
                ELSE [ok |-> FALSE, w |-> w]

process_reduce_to_hypothesis(w, h, e) ==
    LET r == unify_with(w, h.type, e)
    IN  IF r.ok THEN [ok |-> TRUE,  w |-> replace_hypothesis(w, h.name, r.val, "M")]
                ELSE [ok |-> FALSE, w |-> w]

RECURSIVE ReduceToHyps(_, _, _, _, _, _)
ReduceToHyps(w, hyps, k, e, loc, progress) ==
    IF k > Len(hyps) THEN [ok |-> progress, w |-> w]
    ELSE IF ~includes_hypothesis(loc, hyps[k].name).some
         THEN ReduceToHyps(w, hyps, k + 1, e, loc, progress)
         ELSE LET r == process_reduce_to_hypothesis(w, hyps[k], e)
              IN  ReduceToHyps(r.w, hyps, k + 1, e, loc, progress \/ r.ok)

process_reduce_to_step(w, e, loc) ==
    IF is_goal_only(loc) THEN process_reduce_to_goal(w, e)
    ELSE LET hs == ReduceToHyps(w, w.g.hyps, 1, e, loc, FALSE)
         IN  IF includes_goal(loc).some
             THEN LET r == process_reduce_to_goal(hs.w, e)
                  IN  [ok |-> hs.ok \/ r.ok, w |-> r.w]
             ELSE hs

process_reduce_step(w, elem) ==
    IF elem.nargs = 0 THEN process_reduce_step_names(w, {}, elem.loc)
                      ELSE process_reduce_to_step(w, elem.e, elem.loc)

(***************************************************************************)
(* Fold steps: replace the selected occurrences of the one-step unfolding  *)
(* of the fold term by the fold term.                                      *)
(***************************************************************************)
(* number of positions 1..j of t whose subterm satisfies the test *)
CountUpTo(t, j, sym) ==
    Cardinality({i \in 1..j : FullNorm(t.args[i].sym) = FullNorm(sym)})

fold(type, e, occ) ==
    IF e = "m" THEN [ok |-> FALSE, val |-> type]          \* elaboration left constraints
    ELSE IF ~HasDef(e) THEN [ok |-> FALSE, val |-> type]  \* unfold_app fails
    ELSE LET unfolded_e == DefBody(e)
             hit(j) == /\ FullNorm(type.args[j].sym) = FullNorm(unfolded_e)
                       /\ occ_contains(occ, CountUpTo(type, j, unfolded_e))
             found == \E j \in 1..Len(type.args) : hit(j)
             new_type == Term(type.rel, [j \in 1..Len(type.args) |->
                                 IF hit(j) THEN Ok(e) ELSE type.args[j]])
         IN  IF found THEN [ok |-> TRUE, val |-> new_type]
                      ELSE [ok |-> FALSE, val |-> type]

process_fold_goal(w, e, occ) ==
    LET r == fold(w.g.type, e, occ)
    IN  IF r.ok THEN [ok |-> TRUE,  w |-> replace_goal(w, r.val, "M")]
                ELSE [ok |-> FALSE, w |-> w]

process_fold_hypothesis(w, h, e, occ) ==
    LET r == fold(h.type, e, occ)
    IN  IF r.ok THEN [ok |-> TRUE,  w |-> replace_hypothesis(w, h.name, r.val, "M")]
                ELSE [ok |-> FALSE, w |-> w]

RECURSIVE FoldHyps(_, _, _, _, _, _)
FoldHyps(w, hyps, k, e, loc, progress) ==
    IF k > Len(hyps) THEN [ok |-> progress, w |-> w]
    ELSE LET occ == includes_hypothesis(loc, hyps[k].name)
         IN  IF ~occ.some
             THEN FoldHyps(w, hyps, k + 1, e, loc, progress)
             ELSE LET r == process_fold_hypothesis(w, hyps[k], e, occ)
                  IN  FoldHyps(r.w, hyps, k + 1, e, loc, progress \/ r.ok)

process_fold_step(w, elem) ==
    IF is_goal_only(elem.loc)
    THEN process_fold_goal(w, elem.fold, includes_goal(elem.loc))
    ELSE LET hs == FoldHyps(w, w.g.hyps, 1, elem.fold, elem.loc, FALSE)
             occ == includes_goal(elem.loc)
         IN  IF occ.some
             THEN LET r == process_fold_goal(hs.w, elem.fold, occ)
                  IN  [ok |-> hs.ok \/ r.ok, w |-> r.w]
             ELSE hs

(***************************************************************************)
(* Element steps: one application (process_rewrite_single_step).           *)
(***************************************************************************)
Rule(l, r, iseq) == [lhs |-> l, rhs |-> r, eq |-> iseq]

(* the equation side the rule is unified with, and the side that replaces it *)
RuleSrc(elem) == IF elem.symm THEN elem.rule.rhs ELSE elem.rule.lhs

RuleDst(elem) == IF elem.symm THEN elem.rule.lhs ELSE elem.rule.rhs

(* rewrite_fn::get_pattern, for a rule that is an equation *)
get_pattern(elem) == IF elem.pat # "" THEN elem.pat ELSE RuleSrc(elem)

TargetTrace(t, is_hyp) ==
    [is_hyp |-> is_hyp, target |-> t, failures |-> <<>>, matched |-> 0,
     asserted |-> FALSE]

Failure(k, pos) == [kind |-> k, pos |-> pos]

(* rewrite_fn::add_target: a fresh target trace when tracing is on *)
add_target(w, t, is_hyp, use_trace) ==
    IF use_trace THEN [w EXCEPT !.targs = Append(@, TargetTrace(t, is_hyp))] ELSE w

(* rewrite_fn::add_target_failure on latest_target(): cons at the front. *)
(* asserted records that lean_assert(!tt.m_matched) met a matched trace  *)
add_target_failure(w, k, pos, use_trace) ==
    IF use_trace /\ w.targs # <<>>
    THEN LET tt == w.targs[Len(w.targs)]
         IN  [w EXCEPT !.targs[Len(w.targs)] =
                 [tt EXCEPT !.failures = <<Failure(k, pos)>> \o @,
                            !.asserted = @ \/ tt.matched # 0]]
    ELSE w

(* rewrite_fn::add_target_match on latest_target() *)
add_target_match(w, pos, use_trace) ==
    IF use_trace /\ w.targs # <<>>
    THEN LET tt == w.targs[Len(w.targs)]
         IN  [w EXCEPT !.targs[Len(w.targs)] =
                 [tt EXCEPT !.matched = pos,
                            !.asserted = @ \/ tt.matched # 0]]
    ELSE w

(* the metavariable standing for an argument of the rule *)
RuleMvar == 0

(* the substitution the unifier hands back for candidate t: the rule's *)
(* metavariable is assigned when the candidate needs it                *)
UnifierSubst(subst, t) ==
    IF t.u \in {"assign", "symm_exc"} THEN subst \cup {<<RuleMvar, t.sym>>} ELSE subst

(* unify_target turns the rule around with mk_symm for a goal rewritten *)
(* left to right and for a hypothesis rewritten right to left           *)
CallsMkSymm(elem, is_goal) == is_goal # elem.symm

(* rewrite_fn::unify_target for candidate t at position pos.  The try    *)
(* block assigns m_subst and records the match before mk_symm runs; an   *)
(* exception of mk_symm is caught and reported as a failure afterwards   *)
unify_target(w, t, pos, elem, is_goal, use_trace) ==
    IF t.u = "exc"
    THEN [ok |-> FALSE, w |-> add_target_failure(w, "Exception", pos, use_trace)]
    ELSE IF FullNorm(t.sym) # FullNorm(RuleSrc(elem)) \/ t.u = "unif"
    THEN [ok |-> FALSE, w |-> add_target_failure(w, "Unification", pos, use_trace)]
    ELSE IF t.u = "mvars"
    THEN [ok |-> FALSE, w |-> add_target_failure(w, "HasMetavars", pos, use_trace)]
    ELSE LET w1 == add_target_match([w EXCEPT !.subst = UnifierSubst(w.subst, t)],
                                    pos, use_trace)
         IN  IF t.u = "symm_exc" /\ CallsMkSymm(elem, is_goal)
             THEN [ok |-> FALSE,
                   w |-> add_target_failure(w1, "Exception", pos, use_trace)]
             ELSE [ok |-> TRUE, w |-> w1]

(* rewrite_fn::find_target: for_each over the closed subterms from       *)
(* position p on; the visitor stops descending once a result is set      *)
RECURSIVE find_target(_, _, _, _, _, _, _)
find_target(w, e, pattern, elem, is_goal, p, use_trace) ==
    IF p > Len(e.args) THEN [pos |-> 0, w |-> w]
    ELSE IF e.args[p].sym # pattern
    THEN find_target(w, e, pattern, elem, is_goal, p + 1, use_trace)
    ELSE LET r == unify_target(w, e.args[p], p, elem, is_goal, use_trace)
         IN  IF r.ok THEN [pos |-> p, w |-> r.w]
             ELSE find_target(r.w, e, pattern, elem, is_goal, p + 1, use_trace)

(* replace_occurrences followed by instantiate: the occurrences of a     *)
(* selected by occ become b                                              *)
replace_occurrences(Pa, a, occ, b) ==
    Term(Pa.rel, [j \in 1..Len(Pa.args) |->
            IF /\ FullNorm(Pa.args[j].sym) = FullNorm(a)
               /\ occ_contains(occ, CountUpTo(Pa, j, a))
            THEN Ok(b) ELSE Pa.args[j]])

process_rewrite_hypothesis(w, h, elem, pattern, occ, use_trace) ==
    LET f == find_target(add_target(w, h.name, TRUE, use_trace),
                         h.type, pattern, elem, FALSE, 1, use_trace)
    IN  IF f.pos # 0
        THEN LET Pb == replace_occurrences(h.type, h.type.args[f.pos].sym, occ, RuleDst(elem))
             IN  [ok |-> TRUE, w |-> replace_hypothesis(f.w, h.name, Pb, "H")]
        ELSE [ok |-> FALSE, w |-> f.w]

process_rewrite_goal(w, elem, pattern, occ, use_trace) ==
    LET Pa == w.g.type
        f  == find_target(add_target(w, "goal", FALSE, use_trace),
                          Pa, pattern, elem, TRUE, 1, use_trace)
    IN  IF f.pos # 0
        THEN LET Pb == replace_occurrences(Pa, Pa.args[f.pos].sym, occ, RuleDst(elem))
             IN  [ok |-> TRUE, w |-> replace_goal(f.w, Pb, "H")]
        ELSE [ok |-> FALSE, w |-> f.w]

RECURSIVE RewriteHyps(_, _, _, _, _, _, _)
RewriteHyps(w, hyps, k, elem, pattern, progress, use_trace) ==
    IF k > Len(hyps) THEN [ok |-> progress, w |-> w]
    ELSE LET occ == includes_hypothesis(elem.loc, hyps[k].name)
         IN  IF ~occ.some
             THEN RewriteHyps(w, hyps, k + 1, elem, pattern, progress, use_trace)
             ELSE LET r == process_rewrite_hypothesis(w, hyps[k], elem, pattern, occ, use_trace)
                  IN  RewriteHyps(r.w, hyps, k + 1, elem, pattern, progress \/ r.ok, use_trace)

(* variant: the goal is processed before the selected hypotheses *)
process_rewrite_single_step_goal_first(w, elem, pattern, use_trace) ==
    IF is_goal_only(elem.loc)
    THEN process_rewrite_goal(w, elem, pattern, includes_goal(elem.loc), use_trace)
    ELSE LET occ == includes_goal(elem.loc)
             r   == IF occ.some
                    THEN process_rewrite_goal(w, elem, pattern, occ, use_trace)
                    ELSE [ok |-> FALSE, w |-> w]
         IN  RewriteHyps(r.w, w.g.hyps, 1, elem, pattern, r.ok, use_trace)

process_rewrite_single_step(w, elem, pattern, use_trace) ==
    IF is_goal_only(elem.loc)
    THEN process_rewrite_goal(w, elem, pattern, includes_goal(elem.loc), use_trace)
    ELSE LET hs  == RewriteHyps(w, w.g.hyps, 1, elem, pattern, FALSE, use_trace)
             occ == includes_goal(elem.loc)
         IN  IF occ.some
             THEN LET r == process_rewrite_goal(hs.w, elem, pattern, occ, use_trace)
                  IN  [ok |-> hs.ok \/ r.ok, w |-> r.w]
             ELSE hs

(***************************************************************************)
(* Repetition policies (rewrite_fn::process_rewrite_step).                 *)
(***************************************************************************)
Min(x, y) == IF x < y THEN x ELSE y

Multiplicities == {"Once", "AtMostN", "ExactlyN", "ZeroOrMore", "OneOrMore"}

has_num(mult) == mult \in {"AtMostN", "ExactlyN"}

(* variant: the ceiling test is strict *)
check_max_iter_strict(i, max_iter) == i > max_iter

(* rewrite_fn::check_max_iter: TRUE when it throws *)
check_max_iter(i, max_iter) == i >= max_iter

(* variant: the unbounded policies run one more iteration *)
LoopLimit_extra(elem, max_iter) ==
    IF has_num(elem.mult) THEN Min(elem.num, max_iter) ELSE max_iter + 1

(* the bound in the for-loop condition of each repeated policy *)
LoopLimit(elem, max_iter) ==
    IF has_num(elem.mult) THEN Min(elem.num, max_iter) ELSE max_iter

(* variant: ZeroOrMore reports the failed application as a failed step *)
OnApplicationFailed_strict(mult) == mult = "AtMostN" \/ mult = "OneOrMore"

(* value returned by the step when an application inside the loop fails *)
OnApplicationFailed(mult) ==
    CASE mult = "AtMostN"    -> TRUE
      [] mult = "ExactlyN"   -> FALSE
      [] mult = "ZeroOrMore" -> TRUE
      [] mult = "OneOrMore"  -> TRUE

(* what follows the loop: TRUE when the ceiling error is thrown, FALSE *)
(* when the step returns true                                         *)
ThrowsAfterLoop(mult, i, max_iter) ==
    IF has_num(mult) THEN check_max_iter(i, max_iter) ELSE TRUE

(* applications a repeated policy makes before entering its loop *)
HasLeadingApplication(mult) == mult = "OneOrMore"

(***************************************************************************)
(* Trace bookkeeping.                                                      *)
(***************************************************************************)
Trace(lemma, pattern, targets) == [lemma |-> lemma, pattern |-> pattern, targets |-> targets]

EmptyTrace == Trace(0, "", <<>>)

(* variant: the flag survives from the previous step *)
clear_trace_keep(initialized) == initialized

(* rewrite_fn::clear_trace: the new value of m_trace_initialized *)
clear_trace(initialized) == FALSE

(* rewrite_fn::init_trace: new (m_trace_initialized, m_trace) *)
init_trace(use_trace, initialized, trace, lemma, pattern) ==
    IF use_trace THEN [init |-> TRUE, trace |-> Trace(lemma, pattern, <<>>)]
                 ELSE [init |-> initialized, trace |-> trace]

(***************************************************************************)
(* End of the invocation.                                                  *)
(***************************************************************************)
ProofState(goals, subst) == [goals |-> goals, subst |-> subst]

(* rewrite_fn::check_trivial_goal: "" when the goal is not trivial, else *)
(* the proof assigned to it                                              *)
check_trivial_goal(g, impredicative) ==
    LET type == g.type
    IN  IF type.rel = "eq" \/ (type.rel = "iff" /\ impredicative)
        THEN IF /\ Len(type.args) = 2
                /\ FullNorm(type.args[1].sym) = FullNorm(type.args[2].sym)
                /\ ~LeavesConstraints(type)
             THEN (IF type.rel = "eq" THEN "refl" ELSE "iff_refl")
             ELSE ""
        ELSE IF type = TrueProp THEN "eq_intro"
        ELSE ""

(* variant: a discharged goal stays in the list *)
new_gs_keep(trivial, g, ps_goals) == <<g>> \o Tail(ps_goals)

(* goals of the successor state built after the last step *)
new_gs(trivial, g, ps_goals) ==
    IF trivial THEN Tail(ps_goals) ELSE <<g>> \o Tail(ps_goals)

(* variant: the failure carries the goals of the state the tactic started from *)
curr_ps_initial(ps_goals, g, subst) == ProofState(ps_goals, subst)

(* proof state carried by the tactic failure *)
curr_ps(ps_goals, g, subst) == ProofState(<<g>> \o Tail(ps_goals), subst)

(* TRUE when the failure carries the generic message *)
UsesGenericMessage(use_trace, trace_initialized) == ~use_trace \/ ~trace_initialized

(* variant: the loop goes on after a failed step *)
StepAborts_never(ok) == FALSE

(* the loop of operator() stops at a step that returned false *)
StepAborts(ok) == ~ok

Outcome(kind, states, elem, ps, generic, trace, threshold) ==
    [kind |-> kind, states |-> states, elem |-> elem, ps |-> ps,
     generic |-> generic, trace |-> trace, threshold |-> threshold]

NoPS == ProofState(<<>>, {})

Running == Outcome("running", <<>>, 0, NoPS, TRUE, EmptyTrace, 0)

(***************************************************************************)
(* Steps of an invocation.                                                 *)
(***************************************************************************)
Rab  == Rule("a", "b", TRUE)

Raa  == Rule("a", "a", TRUE)

Rnoteq == Rule("a", "b", FALSE)

Step(kind, rule, symm, mult, num, loc, pat, names, fold_term, nargs, e) ==
    [kind |-> kind, rule |-> rule, symm |-> symm, mult |-> mult, num |-> num,
     loc |-> loc, pat |-> pat, names |-> names, fold |-> fold_term,
     nargs |-> nargs, e |-> e]

Elem(rule, symm, mult, num, loc, pat) ==
    Step("rewrite", rule, symm, mult, num, loc, pat, {}, "", 1, TrueProp)

Unfold(names, loc) == Step("unfold", Raa, FALSE, "Once", 0, loc, "", names, "", 0, TrueProp)

FoldStep(s, loc) == Step("fold", Raa, FALSE, "Once", 0, loc, "", {}, s, 1, TrueProp)

Reduce(loc) == Step("reduce", Raa, FALSE, "Once", 0, loc, "", {}, "", 0, TrueProp)

ReduceTo(e, loc) == Step("reduce", Raa, FALSE, "Once", 0, loc, "", {}, "", 1, e)

StepPool ==
    {Elem(Rab, FALSE, m, n, LocGoalOcc(OccPos({1})), "") :
         m \in {"AtMostN", "ExactlyN"}, n \in {MaxNum - 1, MaxNum}}
    \cup {Elem(Raa, FALSE, m, MaxNum, LocGoalOnly, "") :
         m \in {"AtMostN", "ExactlyN", "ZeroOrMore", "OneOrMore"}}
    \cup {Elem(Rab, FALSE, m, 0, LocHyps({"h1", "h2"}, TRUE), "") :
         m \in {"Once", "ZeroOrMore"}}
    \cup {Elem(Rab, FALSE, "Once", 0, LocGoalOnly, "d1"),
          Elem(Rab, TRUE, "OneOrMore", 0, LocGoalOnly, ""),
          Elem(Rnoteq, FALSE, "Once", 0, LocGoalOnly, ""),
          Unfold({"d2"}, LocGoalOnly),
          Unfold({"c"}, LocGoalOnly),
          Unfold({"d1", "d2"}, LocHyps({"h2"}, TRUE)),
          Reduce(LocGoalOnly),
          ReduceTo(Term("other", <<Ok("a"), Ok("a"), Ok("c")>>), LocHyps({"h1"}, TRUE)),
          FoldStep("d1", LocGoalOnly),
          FoldStep("d2", LocHyps({"h2"}, FALSE))}

(***************************************************************************)
(* Proof states an invocation starts from.                                 *)
(***************************************************************************)
Hyps0 == <<Hyp("h1", Term("other", <<Ok("a"), Sub("a", "unif")>>)),
           Hyp("h2", Term("other", <<Ok("d2"), Ok("m")>>))>>

OtherGoals == <<Goal(2, <<>>, Term("other", <<Ok("c")>>)),
                Goal(3, Hyps0, Term("eq", <<Ok("a"), Ok("b")>>))>>

FirstGoals ==
    {Goal(1, Hyps0, Term("other", <<Ok("d1"), Ok("a"), Sub("a", "mvars"), Ok("a"), Ok("c")>>)),
     Goal(1, Hyps0, Term("eq", <<Ok("d2"), Ok("b")>>)),
     Goal(1, <<>>, Term("iff", <<Sub("a", "exc"), Ok("a")>>)),
     Goal(1, <<>>, TrueProp),
     Goal(1, <<>>, Term("other", <<Sub("a", "symm_exc"), Ok("c")>>)),
     Goal(1, Hyps0, Term("other", <<Ok("m"), Ok("b")>>))}

FirstNgen == 10

(***************************************************************************)
(* Let-value macros (src/library/let.cpp).                                 *)
(***************************************************************************)
IdModulus == 2 ^ IdWidth

Threads == 1..NumThreads

LetArgs == {"x", "y"}

VARIABLES
    g_next_let_value_id,  \* the atomic counter
    lv_pc,                \* per thread: "idle", or "cell" between the fetch-add and mk_macro
    lv_id,                \* per thread: the value fetch-add returned
    lv_arg,               \* per thread: the sub-term being wrapped
    lv_call,              \* per thread: sequence number of its call
    created,              \* the wrappers mk_let_value has returned, in order
    calls                 \* number of calls started

letvars == <<g_next_let_value_id, lv_pc, lv_id, lv_arg, lv_call, created, calls>>

(***************************************************************************)
(* Binary serialization of macro nodes (rewrite_tactic.cpp, let.cpp):      *)
(* state of one writer/reader pair working on one node at a time.          *)
(***************************************************************************)
VARIABLES
    ser_pc,               \* "idle", "made", "written" or "read"
    ser_node,             \* the node handed to the writer
    ser_stream,           \* what the writer emitted: opcode, then the payload
    ser_pos,              \* number of stream items the reader has consumed
    ser_num,              \* the sub-term count handed to the macro deserializer
    ser_res,              \* what the deserializer returned or that it threw
    ser_heap,             \* number of macro definition cells allocated so far
    ser_pre,              \* counter and heap as they were when the deserializer was entered
    ser_trips             \* number of nodes built by the constructors so far

servars == <<ser_pc, ser_node, ser_stream, ser_pos, ser_num, ser_res, ser_heap,
             ser_pre, ser_trips>>

(***************************************************************************)
(* Local context (local_context.cpp): the two parallel lists, and the      *)
(* results of the last calls of its operations.                            *)
(***************************************************************************)
VARIABLES
    m_ctx,                \* the concrete locals, most recently added first
    m_ctx_abstracted,     \* their abstracted forms, in the same order
    lc_assert,            \* TRUE once a lean_assert of the class has failed
    lc_pi,                \* last pi_abstract_context call: its argument and result
    lc_app,               \* last apply_context call: its argument and result
    lc_abs                \* last abstract_locals call: arguments, result, result of re-applying

lcvars == <<m_ctx, m_ctx_abstracted, lc_assert, lc_pi, lc_app, lc_abs>>

(***************************************************************************)
(* memory_pool (util/memory_pool.h): the pool, the heap words it uses, and *)
(* what its caller holds.                                                  *)
(***************************************************************************)
VARIABLES
    m_free_list,          \* head of the free list; 0 is nullptr
    mp_mem,               \* first machine word of every block malloc has returned
    mp_out,               \* blocks the caller holds
    mp_prev,              \* the pool call before the last one
    mp_last               \* the last pool call: operation, block, free list before it

mpvars == <<m_free_list, mp_mem, mp_out, mp_prev, mp_last>>

(***************************************************************************)
(* Parser utilities (frontends/lean/util.cpp): the parser's local table    *)
(* and the last call of each function.                                     *)
(***************************************************************************)
VARIABLES
    pu_p,                 \* the parser: its local declarations and include variables
    pu_sort,              \* last sort_locals call
    pu_ctx,               \* last locals_to_context call
    pu_ref                \* last update_local_ref call

puvars == <<pu_p, pu_sort, pu_ctx, pu_ref>>

(***************************************************************************)
(* Elaboration utilities: the most recent call of is_local_ref,            *)
(* mk_result_level or univ_metavars_to_params, with its inputs and results.*)
(***************************************************************************)
VARIABLES
    el_call

elvars == <<el_call>>

(***************************************************************************)
(* consume_until_end: the tokens of the parser, the position of the        *)
(* current token, where the call started and the statement it is at.       *)
(***************************************************************************)
VARIABLES
    sc_toks,
    sc_pos,
    sc_from,
    sc_pc

scvars == <<sc_toks, sc_pos, sc_from, sc_pc>>

(***************************************************************************)
(* One application of a step to the working goal, or one search of a       *)
(* target: the most recent call with its inputs and results.               *)
(***************************************************************************)
VARIABLES
    ap_call

apvars == <<ap_call>>

(* what the rewrite engine leaves alone *)
RwFrame == UNCHANGED <<letvars, servars, lcvars, mpvars, puvars, elvars, scvars, apvars>>

(***************************************************************************)
(* State of one invocation of rewrite_fn.                                  *)
(***************************************************************************)
VARIABLES
    elems,                \* the steps handed to operator(), as far as the loop has read them
    m_ps,                 \* the proof state the tactic was invoked on
    m_env,                \* environment flags
    m_g, m_subst, m_ngen, \* the working copy
    m_use_trace, m_max_iter,
    m_trace_initialized, m_trace,
    pc,                   \* "loop" (head of the for loop), "rw" (inside a repetition loop), "done"
    idx,                  \* position in elems of the step being processed
    i,                    \* loop counter of process_rewrite_step
    outcome,              \* what the invocation returned or threw
    napps,                \* successful single applications made by the current step
    started,              \* positions of the steps handed to process_step, in order
    log,                  \* result of each finished step, in order
    pre                   \* working goal and substitution when the current step started

rwvars == <<elems, m_ps, m_env, m_g, m_subst, m_ngen, m_use_trace, m_max_iter,
            m_trace_initialized, m_trace, pc, idx, i, outcome, napps, started, log, pre>>

(* rewrite_fn::rewrite_fn *)
RwInit ==
    /\ elems = <<>>
    /\ \E g \in FirstGoals, rf \in BOOLEAN :
          /\ m_ps = [goals |-> <<g>> \o OtherGoals, subst |-> {}, report_failure |-> rf]
          /\ m_g = g
          /\ pre = [g |-> g, subst |-> {}]
    /\ m_env \in [impredicative : BOOLEAN]
    /\ m_subst = {}
    /\ m_ngen = FirstNgen
    /\ m_use_trace \in BOOLEAN
    /\ m_max_iter \in 0..MaxIterBound
    /\ m_trace_initialized \in BOOLEAN     \* not set by the constructor
    /\ m_trace = EmptyTrace
    /\ pc = "loop"
    /\ idx = 1
    /\ i = 0
    /\ outcome = Running
    /\ napps = 0
    /\ started = <<>>
    /\ log = <<>>

CurWork == Work(m_g, m_subst, m_ngen, m_trace.targets)

SetWork(w, ti, tr) ==
    /\ m_g' = w.g
    /\ m_subst' = w.subst
    /\ m_ngen' = w.ngen
    /\ m_trace_initialized' = ti
    /\ m_trace' = [tr EXCEPT !.targets = w.targs]

LogEntry(k, res) == [idx |-> k, res |-> res]

(* process_step returned ok: the rest of the loop body of operator() *)
StepReturn(ok, w, ti, tr) ==
    /\ SetWork(w, ti, tr)
    /\ log' = Append(log, LogEntry(idx, IF ok THEN "ok" ELSE "fail"))
    /\ i' = 0
    /\ IF StepAborts(ok)
       THEN /\ pc' = "done"
            /\ idx' = idx
            /\ outcome' =
                 IF m_ps.report_failure
                 THEN LET generic == UsesGenericMessage(m_use_trace, ti)
                      IN  Outcome("tactic_exception", <<>>, idx,
                                  curr_ps(m_ps.goals, w.g, w.subst), generic,
                                  IF generic THEN EmptyTrace
                                             ELSE [tr EXCEPT !.targets = w.targs],
                                  0)
                 ELSE Outcome("seq", <<>>, 0, NoPS, TRUE, EmptyTrace, 0)
       ELSE /\ pc' = "loop"
            /\ idx' = idx + 1
            /\ outcome' = outcome

(* process_step threw: the exception leaves operator() *)
StepThrow(kind, w, ti, tr) ==
    /\ SetWork(w, ti, tr)
    /\ log' = Append(log, LogEntry(idx, "throw"))
    /\ i' = i
    /\ pc' = "done"
    /\ idx' = idx
    /\ outcome' = Outcome(kind, <<>>, idx, NoPS, TRUE, EmptyTrace, m_max_iter)

(* head of the loop body: flet, process_step, clear_trace *)
Enter(elem) ==
    /\ pc = "loop"
    /\ idx = Len(elems) + 1
    /\ Len(elems) < MaxSteps
    /\ elems' = Append(elems, elem)
    /\ started' = Append(started, idx)
    /\ pre' = [g |-> m_g, subst |-> m_subst]
    /\ UNCHANGED <<m_ps, m_env, m_use_trace, m_max_iter>>
    /\ RwFrame

BeginUnfold ==
    \E elem \in {s \in StepPool : s.kind = "unfold"} :
        /\ Enter(elem)
        /\ napps' = 0
        /\ LET r == process_unfold_step(CurWork, elem)
           IN  StepReturn(r.ok, r.w, clear_trace(m_trace_initialized), m_trace)

BeginFold ==
    \E elem \in {s \in StepPool : s.kind = "fold"} :
        /\ Enter(elem)
        /\ napps' = 0
        /\ LET r == process_fold_step(CurWork, elem)
           IN  StepReturn(r.ok, r.w, clear_trace(m_trace_initialized), m_trace)

BeginReduce ==
    \E elem \in {s \in StepPool : s.kind = "reduce"} :
        /\ Enter(elem)
        /\ napps' = 0
        /\ LET r == process_reduce_step(CurWork, elem)
           IN  StepReturn(r.ok, r.w, clear_trace(m_trace_initialized), m_trace)

(* process_step on an element, up to the first loop test of process_rewrite_step *)
BeginRewrite ==
    \E elem \in {s \in StepPool : s.kind = "rewrite"} :
        /\ Enter(elem)
        /\ LET ti0 == clear_trace(m_trace_initialized)
           IN  IF elem.pat = "" /\ ~elem.rule.eq
               THEN /\ napps' = 0
                    /\ StepThrow("not_an_equality", CurWork, ti0, m_trace)
               ELSE LET pattern == get_pattern(elem)
                        it == init_trace(m_use_trace, ti0, m_trace, idx, pattern)
                        w0 == Work(m_g, m_subst, m_ngen, it.trace.targets)
                        r  == process_rewrite_single_step(w0, elem, pattern, m_use_trace)
                    IN  IF elem.mult = "Once"
                        THEN /\ napps' = IF r.ok THEN 1 ELSE 0
                             /\ StepReturn(r.ok, r.w, it.init, it.trace)
                        ELSE IF HasLeadingApplication(elem.mult)
                        THEN IF ~r.ok
                             THEN /\ napps' = 0
                                  /\ StepReturn(FALSE, r.w, it.init, it.trace)
                             ELSE /\ napps' = 1
                                  /\ SetWork(r.w, it.init, it.trace)
                                  /\ pc' = "rw"
                                  /\ i' = 0
                                  /\ UNCHANGED <<idx, outcome, log>>
                        ELSE /\ napps' = 0
                             /\ SetWork(w0, it.init, it.trace)
                             /\ pc' = "rw"
                             /\ i' = 0
                             /\ UNCHANGED <<idx, outcome, log>>

(* one iteration of a repetition loop: the test holds and the body runs *)
Apply ==
    /\ pc = "rw"
    /\ LET elem == elems[idx]
       IN  /\ i < LoopLimit(elem, m_max_iter)
           /\ LET r == process_rewrite_single_step(CurWork, elem, get_pattern(elem), m_use_trace)
              IN  IF ~r.ok
                  THEN /\ StepReturn(OnApplicationFailed(elem.mult), r.w,
                                     m_trace_initialized, m_trace)
                       /\ napps' = napps
                  ELSE /\ SetWork(r.w, m_trace_initialized, m_trace)
                       /\ i' = i + 1
                       /\ napps' = napps + 1
                       /\ UNCHANGED <<pc, idx, outcome, log>>
    /\ UNCHANGED <<elems, m_ps, m_env, m_use_trace, m_max_iter, started, pre>>
    /\ RwFrame

(* the loop test fails: check_max_iter / throw_max_iter_exceeded / return true *)
LoopExit ==
    /\ pc = "rw"
    /\ LET elem == elems[idx]
       IN  /\ ~(i < LoopLimit(elem, m_max_iter))
           /\ IF ThrowsAfterLoop(elem.mult, i, m_max_iter)
              THEN StepThrow("max_iter_exceeded", CurWork, m_trace_initialized, m_trace)
              ELSE StepReturn(TRUE, CurWork, m_trace_initialized, m_trace)
    /\ UNCHANGED <<elems, m_ps, m_env, m_use_trace, m_max_iter, started, pre, napps>>
    /\ RwFrame

(* every step succeeded: check_trivial_goal and the successor state *)
Finish ==
    /\ pc = "loop"
    /\ idx = Len(elems) + 1
    /\ LET by == check_trivial_goal(m_g, m_env.impredicative)
           s  == IF by # "" THEN assign(m_subst, m_g, by) ELSE m_subst
       IN  /\ m_subst' = s
           /\ outcome' = Outcome("seq",
                                 <<ProofState(new_gs(by # "", m_g, m_ps.goals), s)>>,
                                 0, NoPS, TRUE, EmptyTrace, 0)
    /\ pc' = "done"
    /\ UNCHANGED <<elems, m_ps, m_env, m_g, m_ngen, m_use_trace, m_max_iter,
                   m_trace_initialized, m_trace, idx, i, napps, started, log, pre>>
    /\ RwFrame

Next ==
    \/ BeginUnfold
    \/ BeginFold
    \/ BeginReduce
    \/ BeginRewrite
    \/ Apply
    \/ LoopExit
    \/ Finish

(* the invocation at rest, for the specifications of the other components *)
RwIdle ==
    /\ elems = <<>>
    /\ m_ps = [goals |-> <<Goal(1, <<>>, TrueProp)>>, subst |-> {}, report_failure |-> FALSE]
    /\ m_env = [impredicative |-> FALSE]
    /\ m_g = Goal(1, <<>>, TrueProp)
    /\ pre = [g |-> Goal(1, <<>>, TrueProp), subst |-> {}]
    /\ m_subst = {}
    /\ m_ngen = FirstNgen
    /\ m_use_trace = FALSE
    /\ m_max_iter = 0
    /\ m_trace_initialized = FALSE
    /\ m_trace = EmptyTrace
    /\ pc = "done"
    /\ idx = 1
    /\ i = 0
    /\ outcome = Running
    /\ napps = 0
    /\ started = <<>>
    /\ log = <<>>

LetInit ==
    /\ g_next_let_value_id = 0
    /\ lv_pc = [t \in Threads |-> "idle"]
    /\ lv_id = [t \in Threads |-> 0]
    /\ lv_arg = [t \in Threads |-> "x"]
    /\ lv_call = [t \in Threads |-> 0]
    /\ created = <<>>
    /\ calls = 0

LetIdle == LetInit

(* what the let-value operations leave alone *)
LetFrame == UNCHANGED <<rwvars, servars, lcvars, mpvars, puvars, elvars, scvars, apvars>>

(* new counter value after atomic_fetch_add_explicit(&g_next_let_value_id, 1u) *)
fetch_add(counter) == (counter + 1) % IdModulus

(* macro definition cell of a let-value and the expression mk_macro builds *)
LetValueCell(id) == [kind |-> "letv", m_id |-> id]

Wrapper(id, arg, call) == [def |-> LetValueCell(id), arg |-> arg, call |-> call]

(* let_value_definition_cell::operator== *)
let_value_eq(c, other) == other.kind = "letv" /\ c.m_id = other.m_id

(* equality of two macro expressions: equal definitions and equal arguments *)
expr_eq(e1, e2) == let_value_eq(e1.def, e2.def) /\ e1.arg = e2.arg

(* next_let_value_id called from the constructor of the cell *)
NextLetValueId(t) ==
    /\ lv_pc[t] = "idle"
    /\ calls < IdModulus + 1
    /\ \E e \in LetArgs : lv_arg' = [lv_arg EXCEPT ![t] = e]
    /\ lv_id' = [lv_id EXCEPT ![t] = g_next_let_value_id]
    /\ g_next_let_value_id' = fetch_add(g_next_let_value_id)
    /\ calls' = calls + 1
    /\ lv_call' = [lv_call EXCEPT ![t] = calls + 1]
    /\ lv_pc' = [lv_pc EXCEPT ![t] = "cell"]
    /\ UNCHANGED created
    /\ LetFrame

(* the rest of mk_let_value: the cell keeps the id, mk_macro wraps the term *)
MkLetValue(t) ==
    /\ lv_pc[t] = "cell"
    /\ created' = Append(created, Wrapper(lv_id[t], lv_arg[t], lv_call[t]))
    /\ lv_pc' = [lv_pc EXCEPT ![t] = "idle"]
    /\ UNCHANGED <<g_next_let_value_id, lv_id, lv_arg, lv_call, calls>>
    /\ LetFrame

NextLet == \E t \in Threads : NextLetValueId(t) \/ MkLetValue(t)

(***************************************************************************)
(* Macro nodes: a definition cell (kind, heap address, payload) and the    *)
(* sub-terms.  The kind is named by the wire tag of the cell's class.      *)
(***************************************************************************)
OptNum(some, v) == [some |-> some, v |-> v]

NoNum == OptNum(FALSE, 0)

(* a default-constructed location *)
DefaultLoc == LocHyps({}, FALSE)

Info(id, var, symm, mult, num, loc, names) ==
    [m_id |-> id, m_var_name |-> var, m_symm |-> symm, m_multiplicity |-> mult,
     m_num |-> num, m_location |-> loc, m_names |-> names]

(* reduce_info (also fold_info), unfold_info and rewrite_info *)
reduce_info(loc) == Info(0, "", FALSE, "Once", NoNum, loc, <<>>)

unfold_info(names, loc) == Info(0, "", FALSE, "Once", NoNum, loc, names)

rewrite_info(symm, mult, num, loc) == Info(0, "", symm, mult, num, loc, <<>>)

(* rewrite_info::mk_once, mk_at_most_n, mk_exactly_n, mk_zero_or_more, mk_one_or_more *)
rewrite_info_mk(mult, n, symm, loc) ==
    rewrite_info(symm, mult, IF has_num(mult) THEN OptNum(TRUE, n) ELSE NoNum, loc)

MacroCell(kind, addr, info) == [kind |-> kind, addr |-> addr, info |-> info]

MacroNode(cell, args) == [def |-> cell, args |-> args]

NoNode == MacroNode(MacroCell("none", 0, reduce_info(DefaultLoc)), <<>>)

(* the constructors; a is the address of the cell that new returns, id the *)
(* value next_let_value_id returned to the cell's constructor              *)
mk_let_value_at(a, id, e) ==
    MacroNode(MacroCell("LetV", a, Info(id, "", FALSE, "Once", NoNum, DefaultLoc, <<>>)), <<e>>)

mk_let(a, n, v, b) ==
    MacroNode(MacroCell("Let", a, Info(0, n, FALSE, "Once", NoNum, DefaultLoc, <<>>)), <<v, b>>)

mk_rewrite_reduce(a, loc) == MacroNode(MacroCell("RWR", a, reduce_info(loc)), <<>>)

mk_rewrite_reduce_to(a, e, loc) == MacroNode(MacroCell("RWR", a, reduce_info(loc)), <<e>>)

mk_rewrite_fold(a, e, loc) == MacroNode(MacroCell("RWF", a, reduce_info(loc)), <<e>>)

mk_rewrite_unfold(a, ns, loc) == MacroNode(MacroCell("RWU", a, unfold_info(ns, loc)), <<>>)

(* pattern "" stands for the absent optional pattern *)
mk_rw_macro(cell, pattern, H) ==
    IF pattern # "" THEN MacroNode(cell, <<H, pattern>>) ELSE MacroNode(cell, <<H>>)

mk_rewrite_elem(a, mult, pattern, H, symm, n, loc) ==
    mk_rw_macro(MacroCell("RWE", a, rewrite_info_mk(mult, n, symm, loc)), pattern, H)

(***************************************************************************)
(* Equality of macro nodes.                                                *)
(***************************************************************************)
reduce_info_eq(x, y) == x.m_location = y.m_location

unfold_info_eq(x, y) == x.m_names = y.m_names /\ x.m_location = y.m_location

rewrite_info_eq(x, y) ==
    /\ x.m_symm = y.m_symm
    /\ x.m_multiplicity = y.m_multiplicity
    /\ x.m_num = y.m_num
    /\ x.m_location = y.m_location

(* the generic test of macro_definition_cell, which let does not override: *)
(* two cells are equal when they are the same cell                         *)
generic_cell_eq(c, o) == c.addr = o.addr

cell_eq(c, o) ==
    CASE c.kind = "LetV" ->
           o.kind = "LetV" /\ let_value_eq(LetValueCell(c.info.m_id), LetValueCell(o.info.m_id))
      [] c.kind = "Let"  -> generic_cell_eq(c, o)
      [] c.kind = "RWR"  -> o.kind = "RWR" /\ reduce_info_eq(c.info, o.info)
      [] c.kind = "RWF"  -> o.kind = "RWF" /\ reduce_info_eq(c.info, o.info)
      [] c.kind = "RWU"  -> o.kind = "RWU" /\ unfold_info_eq(c.info, o.info)
      [] c.kind = "RWE"  -> o.kind = "RWE" /\ rewrite_info_eq(c.info, o.info)
      [] OTHER           -> FALSE

macro_eq(n1, n2) == cell_eq(n1.def, n2.def) /\ n1.args = n2.args

(***************************************************************************)
(* The stream: a sequence of items, each written by one << of the          *)
(* serializer and read by one >> of the deserializer.                      *)
(***************************************************************************)
Tok(t, b, n, s, loc, l) == [t |-> t, b |-> b, n |-> n, s |-> s, loc |-> loc, l |-> l]

TStr(s) == Tok("string", FALSE, 0, s, DefaultLoc, <<>>)

TBool(b) == Tok("bool", b, 0, "", DefaultLoc, <<>>)

TChar(n) == Tok("char", FALSE, n, "", DefaultLoc, <<>>)

TUnsigned(n) == Tok("unsigned", FALSE, n, "", DefaultLoc, <<>>)

TName(s) == Tok("name", FALSE, 0, s, DefaultLoc, <<>>)

TNames(l) == Tok("names", FALSE, 0, "", DefaultLoc, l)

TLoc(loc) == Tok("location", FALSE, 0, "", loc, <<>>)

TEof == Tok("eof", FALSE, 0, "", DefaultLoc, <<>>)

(* the item the next >> reads after pos items were consumed *)
At(stream, pos) == IF pos < Len(stream) THEN stream[pos + 1] ELSE TEof

(* static_cast<char>(multiplicity) and back *)
MultCode(mult) ==
    CASE mult = "Once" -> 0 [] mult = "AtMostN" -> 1 [] mult = "ExactlyN" -> 2
      [] mult = "ZeroOrMore" -> 3 [] mult = "OneOrMore" -> 4

MultOfCode(c) ==
    CASE c = 0 -> "Once" [] c = 1 -> "AtMostN" [] c = 2 -> "ExactlyN"
      [] c = 3 -> "ZeroOrMore" [] OTHER -> "OneOrMore"

(* operator<< of reduce_info, unfold_info and rewrite_info *)
write_reduce_info(e) == <<TLoc(e.m_location)>>

write_unfold_info(e) == <<TNames(e.m_names), TLoc(e.m_location)>>

write_rewrite_info(e) ==
    <<TBool(e.m_symm), TChar(MultCode(e.m_multiplicity)), TLoc(e.m_location)>>
    \o (IF has_num(e.m_multiplicity) THEN <<TUnsigned(e.m_num.v)>> ELSE <<>>)

(* macro_definition_cell::write of each class *)
write(c) ==
    CASE c.kind = "LetV" -> <<TStr("LetV")>>
      [] c.kind = "Let"  -> <<TStr("Let"), TName(c.info.m_var_name)>>
      [] c.kind = "RWR"  -> <<TStr("RWR")>> \o write_reduce_info(c.info)
      [] c.kind = "RWF"  -> <<TStr("RWF")>> \o write_reduce_info(c.info)
      [] c.kind = "RWU"  -> <<TStr("RWU")>> \o write_unfold_info(c.info)
      [] c.kind = "RWE"  -> <<TStr("RWE")>> \o write_rewrite_info(c.info)

(* operator>> of reduce_info, unfold_info and rewrite_info: the info read  *)
(* and the position after it                                               *)
Got(info, pos) == [info |-> info, pos |-> pos]

read_reduce_info(d, pos) == Got(reduce_info(At(d, pos).loc), pos + 1)

read_unfold_info(d, pos) == Got(unfold_info(At(d, pos).l, At(d, pos + 1).loc), pos + 2)

read_rewrite_info(d, pos) ==
    LET mult == MultOfCode(At(d, pos + 1).n) IN
    IF has_num(mult)
    THEN Got(rewrite_info(At(d, pos).b, mult, OptNum(TRUE, At(d, pos + 3).n),
                          At(d, pos + 2).loc), pos + 4)
    ELSE Got(rewrite_info(At(d, pos).b, mult, NoNum, At(d, pos + 2).loc), pos + 3)

(***************************************************************************)
(* The registered macro deserializers.                                     *)
(***************************************************************************)
(* the sub-term counts a deserializer lets through its first test *)
accepts_num_loose(tag, num) ==
    CASE tag = "LetV" -> ~(num # 1)
      [] tag = "Let"  -> ~(num # 2)
      [] tag = "RWR"  -> ~(num > 1)
      [] tag = "RWF"  -> ~(num # 1)
      [] tag = "RWU"  -> ~(num # 0)
      [] tag = "RWE"  -> ~(num < 1)
      [] OTHER        -> FALSE

accepts_num(tag, num) ==
    CASE tag = "LetV" -> ~(num # 1)
      [] tag = "Let"  -> ~(num # 2)
      [] tag = "RWR"  -> ~(num > 1)
      [] tag = "RWF"  -> ~(num # 1)
      [] tag = "RWU"  -> ~(num # 0)
      [] tag = "RWE"  -> ~(num # 1 /\ num # 2)
      [] OTHER        -> FALSE

(* result of a deserializer: the node, the read position, and how many     *)
(* let-value ids and definition cells it used                              *)
Des(ok, node, pos, minted, cells) ==
    [ok |-> ok, node |-> node, pos |-> pos, minted |-> minted, cells |-> cells]

(* throw corrupted_stream_exception() *)
Corrupted(pos) == Des(FALSE, NoNode, pos, 0, 0)

deserialize(tag, d, pos, num, args, counter, a) ==
    IF ~accepts_num(tag, num) THEN Corrupted(pos)
    ELSE CASE tag = "LetV" -> Des(TRUE, mk_let_value_at(a, counter, args[1]), pos, 1, 1)
           [] tag = "Let"  -> Des(TRUE, mk_let(a, At(d, pos).s, args[1], args[2]), pos + 1, 0, 1)
           [] tag = "RWR"  ->
                LET r == read_reduce_info(d, pos) IN
                IF num = 0
                THEN Des(TRUE, mk_rewrite_reduce(a, r.info.m_location), r.pos, 0, 1)
                ELSE Des(TRUE, mk_rewrite_reduce_to(a, args[1], r.info.m_location), r.pos, 0, 1)
           [] tag = "RWF"  ->
                LET r == read_reduce_info(d, pos) IN
                Des(TRUE, mk_rewrite_fold(a, args[1], r.info.m_location), r.pos, 0, 1)
           [] tag = "RWU"  ->
                LET r == read_unfold_info(d, pos) IN
                Des(TRUE, MacroNode(MacroCell("RWU", a, r.info), <<>>), r.pos, 0, 1)
           [] tag = "RWE"  ->
                LET r == read_rewrite_info(d, pos) IN
                Des(TRUE, MacroNode(MacroCell("RWE", a, r.info), args), r.pos, 0, 1)

(***************************************************************************)
(* One writer/reader pair: a node is built, written, and the deserializer  *)
(* registered for its opcode is called with the sub-terms read before it.  *)
(***************************************************************************)
SerLocs == {LocGoalOnly, LocHyps({"h1"}, TRUE)}

SerNames == {<<>>, <<"d1">>, <<"d2", "d1">>}

SerIdle ==
    /\ ser_pc = "idle"
    /\ ser_node = NoNode
    /\ ser_stream = <<>>
    /\ ser_pos = 0
    /\ ser_num = 0
    /\ ser_res = [ok |-> FALSE, node |-> NoNode]
    /\ ser_heap = 0
    /\ ser_pre = [id |-> 0, heap |-> 0, created |-> 0]
    /\ ser_trips = 0

(* what the writer and the reader leave alone *)
SerFrame == UNCHANGED <<rwvars, lv_pc, lv_id, lv_arg, lv_call, lcvars, mpvars, puvars, elvars, scvars, apvars>>

(* a constructor returned node n, whose cell took one heap address *)
Made(n) ==
    /\ ser_pc = "idle"
    /\ ser_trips < MaxTrips
    /\ ser_node' = n
    /\ ser_heap' = ser_heap + 1
    /\ ser_trips' = ser_trips + 1
    /\ ser_pc' = "made"
    /\ UNCHANGED <<ser_stream, ser_pos, ser_num, ser_res, ser_pre>>
    /\ SerFrame

(* mk_let_value run by the only thread: fetch-add, then mk_macro *)
Minted(e) ==
    /\ g_next_let_value_id' = fetch_add(g_next_let_value_id)
    /\ created' = Append(created, Wrapper(g_next_let_value_id, e, calls + 1))
    /\ calls' = calls + 1

SerMkLetValue ==
    \E e \in LetArgs :
        /\ Made(mk_let_value_at(ser_heap, g_next_let_value_id, e))
        /\ Minted(e)

SerMkLet ==
    \E n \in {"x", "y"}, v \in LetArgs, b \in LetArgs :
        /\ Made(mk_let(ser_heap, n, v, b))
        /\ UNCHANGED <<g_next_let_value_id, created, calls>>

SerMkReduce ==
    \E loc \in SerLocs, e \in {"", "x"} :
        /\ Made(IF e = "" THEN mk_rewrite_reduce(ser_heap, loc)
                ELSE mk_rewrite_reduce_to(ser_heap, e, loc))
        /\ UNCHANGED <<g_next_let_value_id, created, calls>>

SerMkFold ==
    \E loc \in SerLocs, e \in LetArgs :
        /\ Made(mk_rewrite_fold(ser_heap, e, loc))
        /\ UNCHANGED <<g_next_let_value_id, created, calls>>

SerMkUnfold ==
    \E loc \in SerLocs, ns \in SerNames :
        /\ Made(mk_rewrite_unfold(ser_heap, ns, loc))
        /\ UNCHANGED <<g_next_let_value_id, created, calls>>

SerMkElem ==
    \E loc \in SerLocs, symm \in BOOLEAN, mult \in Multiplicities,
       n \in {1, MaxNum}, pattern \in {"", "x"} :
        /\ Made(mk_rewrite_elem(ser_heap, mult, pattern, "y", symm, n, loc))
        /\ UNCHANGED <<g_next_let_value_id, created, calls>>

(* the serializer writes the definition of the node *)
SerWrite ==
    /\ ser_pc = "made"
    /\ ser_stream' = write(ser_node.def)
    /\ ser_pc' = "written"
    /\ UNCHANGED <<ser_node, ser_pos, ser_num, ser_res, ser_heap, ser_pre, ser_trips>>
    /\ UNCHANGED <<g_next_let_value_id, created, calls>>
    /\ SerFrame

(* the num sub-terms the reader of the enclosing expression hands over *)
ArgsRead(node, num) ==
    [k \in 1..num |-> IF k <= Len(node.args) THEN node.args[k] ELSE "z"]

(* the opcode is read and the deserializer registered for it is called *)
SerRead ==
    /\ ser_pc = "written"
    /\ \E num \in 0..MaxArgs :
        LET tag == At(ser_stream, 0).s
            r   == deserialize(tag, ser_stream, 1, num, ArgsRead(ser_node, num),
                               g_next_let_value_id, ser_heap)
        IN /\ ser_num' = num
           /\ ser_res' = [ok |-> r.ok, node |-> r.node]
           /\ ser_pos' = r.pos
           /\ ser_heap' = ser_heap + r.cells
           /\ ser_pre' = [id |-> g_next_let_value_id, heap |-> ser_heap,
                          created |-> Len(created)]
           /\ IF r.minted = 1 THEN Minted(r.node.args[1])
              ELSE UNCHANGED <<g_next_let_value_id, created, calls>>
    /\ ser_pc' = "read"
    /\ UNCHANGED <<ser_node, ser_stream, ser_trips>>
    /\ SerFrame

(* the node and the stream are dropped; the pair is used for the next node *)
SerDone ==
    /\ ser_pc = "read"
    /\ ser_pc' = "idle"
    /\ ser_node' = NoNode
    /\ ser_stream' = <<>>
    /\ ser_pos' = 0
    /\ ser_num' = 0
    /\ ser_res' = [ok |-> FALSE, node |-> NoNode]
    /\ UNCHANGED <<ser_heap, ser_pre, ser_trips>>
    /\ UNCHANGED <<g_next_let_value_id, created, calls>>
    /\ SerFrame

NextSer ==
    \/ SerMkLetValue
    \/ SerMkLet
    \/ SerMkReduce
    \/ SerMkFold
    \/ SerMkUnfold
    \/ SerMkElem
    \/ SerWrite
    \/ SerRead
    \/ SerDone

(***************************************************************************)
(* Expressions as the local context and the parser utilities see them:     *)
(* kind, bound-variable index, name, universe levels and children (the     *)
(* type of a local; function and argument; domain and body).               *)
(***************************************************************************)
Expr(k, n, s, ls, a) == [k |-> k, n |-> n, s |-> s, ls |-> ls, a |-> a]

mk_var(n) == Expr("var", n, "", <<>>, <<>>)

mk_constant(c, ls) == Expr("const", 0, c, ls, <<>>)

mk_local(x, type) == Expr("local", 0, x, <<>>, <<type>>)

mk_app(f, arg) == Expr("app", 0, "", <<>>, <<f, arg>>)

mk_pi(x, dom, body) == Expr("pi", 0, x, <<>>, <<dom, body>>)

is_local(e) == e.k = "local"

mlocal_name(e) == e.s

local_pp_name(e) == e.s

mlocal_type(e) == e.a[1]

RECURSIVE has_local(_)
has_local(e) == is_local(e) \/ \E j \in 1..Len(e.a) : has_local(e.a[j])

Reverse(s) == [j \in 1..Len(s) |-> s[Len(s) + 1 - j]]

(* position, counted from 0, of the first local of the list named x; -1 if none *)
PosOf(locals, x) ==
    IF \E j \in 1..Len(locals) : mlocal_name(locals[j]) = x
    THEN (CHOOSE j \in 1..Len(locals) :
            /\ mlocal_name(locals[j]) = x
            /\ \A h \in 1..(j - 1) : mlocal_name(locals[h]) # x) - 1
    ELSE -1

(* replace(e, f) with the functor of abstract_locals: m is kept when it    *)
(* holds no local, a listed local becomes a variable, anything else is     *)
(* rebuilt from its children, the body of a binder one binder deeper       *)
RECURSIVE abs_replace(_, _, _)
abs_replace(m, locals, offset) ==
    IF ~has_local(m) THEN m
    ELSE IF is_local(m) /\ PosOf(locals, mlocal_name(m)) >= 0
         THEN mk_var(offset + PosOf(locals, mlocal_name(m)))
         ELSE [m EXCEPT !.a = [j \in 1..Len(m.a) |->
                   abs_replace(m.a[j], locals,
                               IF m.k = "pi" /\ j = 2 THEN offset + 1 ELSE offset)]]

abstract_locals_shift(e, locals) ==
    IF ~has_local(e) THEN e ELSE abs_replace(e, locals, 1)

abstract_locals(e, locals) ==
    IF ~has_local(e) THEN e ELSE abs_replace(e, locals, 0)

(* instantiate: variable offset + i becomes s[i + 1] *)
RECURSIVE instantiate(_, _, _)
instantiate(e, s, offset) ==
    IF e.k = "var"
    THEN IF e.n >= offset /\ e.n - offset < Len(s) THEN s[e.n - offset + 1] ELSE e
    ELSE [e EXCEPT !.a = [j \in 1..Len(e.a) |->
              instantiate(e.a[j], s, IF e.k = "pi" /\ j = 2 THEN offset + 1 ELSE offset)]]

(***************************************************************************)
(* local_context                                                           *)
(***************************************************************************)
Ctx(ctx, abstracted) == [m_ctx |-> ctx, m_ctx_abstracted |-> abstracted]

Suffix(s, j) == SubSeq(s, j, Len(s))

(* set_ctx abstracting each entry against the list from that entry on *)
set_ctx_self(ctx) ==
    Ctx(ctx, [j \in 1..Len(ctx) |-> abstract_locals(ctx[j], Suffix(ctx, j))])

(* set_ctx: each entry is abstracted against the entries after it *)
set_ctx(ctx) ==
    Ctx(ctx, [j \in 1..Len(ctx) |-> abstract_locals(ctx[j], Suffix(ctx, j + 1))])

(* add_local: the abstracted list is extended first, then the concrete one *)
add_local_after(c, l) ==
    Ctx(<<l>> \o c.m_ctx, <<abstract_locals(l, <<l>> \o c.m_ctx)>> \o c.m_ctx_abstracted)

add_local_stale(c, l) ==
    Ctx(<<l>> \o c.m_ctx, <<abstract_locals(l, Suffix(c.m_ctx, 2))>> \o c.m_ctx_abstracted)

add_local(c, l) ==
    Ctx(<<l>> \o c.m_ctx, <<abstract_locals(l, c.m_ctx)>> \o c.m_ctx_abstracted)

(* the loop of pi_abstract_context over m_ctx_abstracted, head first *)
RECURSIVE pi_wrap(_, _)
pi_wrap(e, ls) ==
    IF ls = <<>> THEN e
    ELSE pi_wrap(mk_pi(local_pp_name(Head(ls)), mlocal_type(Head(ls)), e), Tail(ls))

pi_abstract_context(c, e) == pi_wrap(abstract_locals(e, c.m_ctx), c.m_ctx_abstracted)

RECURSIVE apply_context_core_rev(_, _)
apply_context_core_rev(f, ctx) ==
    IF ctx # <<>> THEN apply_context_core_rev(mk_app(f, Head(ctx)), Tail(ctx)) ELSE f

RECURSIVE apply_context_core(_, _)
apply_context_core(f, ctx) ==
    IF ctx # <<>> THEN mk_app(apply_context_core(f, Tail(ctx)), Head(ctx)) ELSE f

apply_context(c, f) == apply_context_core(f, c.m_ctx)

(* the assertions of set_ctx and add_local on the abstracted list *)
AllLocal(s) == \A j \in 1..Len(s) : is_local(s[j])

(***************************************************************************)
(* Locals and terms of the local context model.                            *)
(***************************************************************************)
CA == mk_constant("A", <<>>)

CP == mk_constant("P", <<>>)

CQ == mk_constant("Q", <<>>)

LX == mk_local("x", CA)

LY == mk_local("y", mk_app(CP, LX))

LZ == mk_local("z", mk_pi("i", CA, mk_app(mk_app(CQ, LX), mk_var(0))))

LU == mk_local("u", CA)

LW == mk_local("w", mk_app(CP, LU))

LocalPool == {LX, LY, LZ, LW}

CtxLists == {<<>>, <<LY, LX>>, <<LX, LY>>}

ClosedTerms ==
    {CA, LX, mk_app(CP, LY), mk_local("v", mk_app(CP, LX)),
     mk_pi("j", CA, mk_app(mk_app(CQ, LY), mk_app(mk_var(0), LZ)))}

OpenTerms == {mk_app(CP, mk_var(0)), mk_app(mk_var(1), LX)}

LocalLists == {<<>>, <<LX>>, <<LY, LX>>, <<LZ, LY, LX>>, <<LU, LX>>}

CtxFunctions == {mk_constant("F", <<>>), mk_local("m", CA)}

NoCall == [done |-> FALSE, e |-> CA, locals |-> <<>>, r |-> CA, rr |-> CA]

Call(e, locals, r, rr) == [done |-> TRUE, e |-> e, locals |-> locals, r |-> r, rr |-> rr]

CtxNow == Ctx(m_ctx, m_ctx_abstracted)

CtxCalls == lc_pi = NoCall /\ lc_app = NoCall /\ lc_abs = NoCall

CtxIdle ==
    /\ m_ctx = <<>>
    /\ m_ctx_abstracted = <<>>
    /\ lc_assert = FALSE
    /\ CtxCalls

(* local_context() and local_context(list<expr> const &) *)
CtxInit ==
    /\ \E ctx \in CtxLists :
          /\ m_ctx = set_ctx(ctx).m_ctx
          /\ m_ctx_abstracted = set_ctx(ctx).m_ctx_abstracted
          /\ lc_assert = ~AllLocal(set_ctx(ctx).m_ctx_abstracted)
    /\ CtxCalls

(* what the local context operations leave alone *)
CtxFrame == UNCHANGED <<rwvars, letvars, servars, mpvars, puvars, elvars, scvars, apvars>>

AddLocal ==
    /\ ~lc_assert
    /\ Len(m_ctx) < MaxCtx
    /\ \E l \in LocalPool :
          /\ m_ctx' = add_local(CtxNow, l).m_ctx
          /\ m_ctx_abstracted' = add_local(CtxNow, l).m_ctx_abstracted
          /\ lc_assert' = \/ Len(add_local(CtxNow, l).m_ctx) #
                                Len(add_local(CtxNow, l).m_ctx_abstracted)
                          \/ ~is_local(Head(add_local(CtxNow, l).m_ctx_abstracted))
    /\ lc_pi' = NoCall /\ lc_app' = NoCall /\ lc_abs' = NoCall
    /\ CtxFrame

PiAbstractContext ==
    /\ ~lc_assert
    /\ \E t \in ClosedTerms :
          lc_pi' = Call(t, m_ctx, pi_abstract_context(CtxNow, t), t)
    /\ lc_abs' = NoCall
    /\ UNCHANGED <<m_ctx, m_ctx_abstracted, lc_assert, lc_app>>
    /\ CtxFrame

ApplyContext ==
    /\ ~lc_assert
    /\ \E f \in CtxFunctions :
          lc_app' = Call(f, m_ctx, apply_context(CtxNow, f), f)
    /\ lc_abs' = NoCall
    /\ UNCHANGED <<m_ctx, m_ctx_abstracted, lc_assert, lc_pi>>
    /\ CtxFrame

(* abstract_locals called on a term, and again on its result *)
AbstractLocals ==
    /\ ~lc_assert
    /\ \E e \in ClosedTerms \cup OpenTerms, locals \in LocalLists :
          lc_abs' = Call(e, locals, abstract_locals(e, locals),
                         abstract_locals(abstract_locals(e, locals), locals))
    /\ lc_pi' = NoCall /\ lc_app' = NoCall
    /\ UNCHANGED <<m_ctx, m_ctx_abstracted, lc_assert>>
    /\ CtxFrame

NextCtx ==
    \/ AddLocal
    \/ PiAbstractContext
    \/ ApplyContext
    \/ AbstractLocals

(***************************************************************************)
(* memory_pool                                                             *)
(***************************************************************************)
Blocks == 1..MaxBlocks

(* the blocks on the free list, head first, following the stored links *)
RECURSIVE FreeSeq(_, _, _)
FreeSeq(p, mem, fuel) ==
    IF p = 0 \/ fuel = 0 THEN <<>> ELSE <<p>> \o FreeSeq(mem[p], mem, fuel - 1)

FreeNow == FreeSeq(m_free_list, mp_mem, MaxBlocks)

Pool(free_list, mem) == [m_free_list |-> free_list, mem |-> mem]

(* allocate() when the free list is not empty: pops its head *)
allocate(pool) ==
    [r |-> pool.m_free_list, pool |-> Pool(pool.mem[pool.m_free_list], pool.mem)]

recycle_nolink(pool, ptr) == Pool(ptr, pool.mem)

(* recycle(ptr): the link goes into the first word of the block *)
recycle(pool, ptr) == Pool(ptr, [pool.mem EXCEPT ![ptr] = pool.m_free_list])

PoolCall(op, blk, free) == [op |-> op, blk |-> blk, free |-> free]

NoPoolCall == PoolCall("none", 0, <<>>)

(* memory_pool(size): no block on the free list, no block handed out *)
PoolInit ==
    /\ m_free_list = 0
    /\ mp_mem = [b \in {} |-> 0]
    /\ mp_out = {}
    /\ mp_prev = NoPoolCall
    /\ mp_last = NoPoolCall

PoolIdle == PoolInit

(* what the pool leaves alone *)
PoolFrame == UNCHANGED <<rwvars, letvars, servars, lcvars, puvars, elvars, scvars, apvars>>

(* allocate() with a block on the free list *)
AllocateFromList ==
    /\ m_free_list # 0
    /\ m_free_list' = allocate(Pool(m_free_list, mp_mem)).pool.m_free_list
    /\ mp_mem' = allocate(Pool(m_free_list, mp_mem)).pool.mem
    /\ mp_out' = mp_out \cup {allocate(Pool(m_free_list, mp_mem)).r}
    /\ mp_prev' = mp_last
    /\ mp_last' = PoolCall("allocate", allocate(Pool(m_free_list, mp_mem)).r, FreeNow)
    /\ PoolFrame

(* allocate() with an empty free list: malloc returns a block not in use,  *)
(* whose content is unspecified                                            *)
AllocateMalloc ==
    /\ m_free_list = 0
    /\ \E b \in Blocks \ DOMAIN mp_mem, w \in 0..MaxBlocks :
          /\ mp_mem' = [x \in DOMAIN mp_mem \cup {b} |-> IF x = b THEN w ELSE mp_mem[x]]
          /\ mp_out' = mp_out \cup {b}
          /\ mp_last' = PoolCall("allocate", b, FreeNow)
    /\ mp_prev' = mp_last
    /\ UNCHANGED m_free_list
    /\ PoolFrame

(* the caller stores data in a block it holds *)
CallerWrites ==
    /\ \E b \in mp_out, w \in 0..MaxBlocks :
          /\ mp_mem[b] # w
          /\ mp_mem' = [mp_mem EXCEPT ![b] = w]
    /\ UNCHANGED <<m_free_list, mp_out, mp_prev, mp_last>>
    /\ PoolFrame

(* recycle(ptr) of a block obtained from this pool and held by the caller *)
Recycle ==
    /\ \E ptr \in mp_out :
          /\ m_free_list' = recycle(Pool(m_free_list, mp_mem), ptr).m_free_list
          /\ mp_mem' = recycle(Pool(m_free_list, mp_mem), ptr).mem
          /\ mp_out' = mp_out \ {ptr}
          /\ mp_last' = PoolCall("recycle", ptr, FreeNow)
    /\ mp_prev' = mp_last
    /\ PoolFrame

NextPool ==
    \/ AllocateFromList
    \/ AllocateMalloc
    \/ CallerWrites
    \/ Recycle

(***************************************************************************)
(* Parser utilities.  The parser is its table of local declarations (is it *)
(* declared, is it a variable, its declaration index) and its include      *)
(* variables.                                                              *)
(***************************************************************************)
Decl(is_decl, is_var, index) == [decl |-> is_decl, var |-> is_var, idx |-> index]

is_local_decl(p, l) == is_local(l) /\ p.decls[local_pp_name(l)].decl

is_local_variable(p, l) == p.decls[local_pp_name(l)].decl /\ p.decls[local_pp_name(l)].var

get_local_index(p, l) == p.decls[local_pp_name(l)].idx

(* the comparator given to std::sort *)
sort_lt_vars_first(p, p1, p2) ==
    IF is_local_variable(p, p1) /\ ~is_local_variable(p, p2) THEN TRUE
    ELSE IF ~is_local_variable(p, p1) /\ is_local_variable(p, p2) THEN FALSE
    ELSE get_local_index(p, p1) < get_local_index(p, p2)

sort_lt(p, p1, p2) ==
    IF ~is_local_variable(p, p1) /\ is_local_variable(p, p2) THEN TRUE
    ELSE IF is_local_variable(p, p1) /\ ~is_local_variable(p, p2) THEN FALSE
    ELSE get_local_index(p, p1) < get_local_index(p, p2)

RECURSIVE SortInsert(_, _, _)
SortInsert(x, s, p) ==
    IF s = <<>> THEN <<x>>
    ELSE IF sort_lt(p, x, Head(s)) THEN <<x>> \o s
    ELSE <<Head(s)>> \o SortInsert(x, Tail(s), p)

RECURSIVE std_sort(_, _)
std_sort(s, p) == IF s = <<>> THEN <<>> ELSE SortInsert(Head(s), std_sort(Tail(s), p), p)

RECURSIVE DeclaredOf(_, _)
DeclaredOf(s, p) ==
    IF s = <<>> THEN <<>>
    ELSE (IF is_local_decl(p, Head(s)) THEN <<Head(s)>> ELSE <<>>) \o DeclaredOf(Tail(s), p)

(* sort_locals; locals is the set in the order its iterator yields it *)
sort_locals(locals, p) == std_sort(DeclaredOf(locals, p), p)

(* the orders in which a set can be iterated *)
OrdersOf(S) ==
    {s \in [1..Cardinality(S) -> S] : \A x \in S : \E j \in 1..Cardinality(S) : s[j] = x}

is_by(e) == e.k = "by"

RECURSIVE collect_locals_ignoring_tactics(_)
collect_locals_ignoring_tactics(e) ==
    IF ~has_local(e) \/ is_by(e) THEN {}
    ELSE (IF is_local(e) THEN {e} ELSE {})
         \cup UNION {collect_locals_ignoring_tactics(e.a[j]) : j \in 1..Len(e.a)}

(* the set ls that collect_locals hands to sort_locals *)
collect_locals_set(type, value, p) ==
    UNION {collect_locals_ignoring_tactics(mlocal_type(p.include[j])) \cup {p.include[j]} :
              j \in 1..Len(p.include)}
    \cup collect_locals_ignoring_tactics(type)
    \cup collect_locals_ignoring_tactics(value)

(* collect_locals: the include variables with the locals of their types,   *)
(* then the locals of type and value, sorted by sort_locals                *)
collect_locals(type, value, p) ==
    sort_locals(CHOOSE s \in OrdersOf(collect_locals_set(type, value, p)) : TRUE, p)

locals_to_context_fwd(locals, p) == sort_locals(locals, p)

(* locals_to_context; locals is the iteration order of the collected set *)
locals_to_context(locals, p) == Reverse(sort_locals(locals, p))

(***************************************************************************)
(* References to names being defined.                                      *)
(***************************************************************************)
Level(k, s) == [k |-> k, s |-> s, a |-> <<>>]

mk_param_univ(s) == Level("param", s)

LvlPlaceholder == Level("placeholder", "_")

LvlZero == Level("zero", "")

is_param(l) == l.k = "param"

is_placeholder(l) == l.k = "placeholder"

mk_explicit(e) == Expr("explicit", 0, "", <<>>, <<e>>)

mk_as_atomic(e) == Expr("as_atomic", 0, "", <<>>, <<e>>)

RECURSIVE mk_app_args(_, _)
mk_app_args(f, args) ==
    IF args = <<>> THEN f ELSE mk_app_args(mk_app(f, Head(args)), Tail(args))

RECURSIVE get_app_fn(_)
get_app_fn(e) == IF e.k = "app" THEN get_app_fn(e.a[1]) ELSE e

RECURSIVE get_app_args(_)
get_app_args(e) == IF e.k = "app" THEN Append(get_app_args(e.a[1]), e.a[2]) ELSE <<>>

RECURSIVE FilterSeq(_, _)
FilterSeq(s, keep) ==
    IF s = <<>> THEN <<>>
    ELSE (IF keep[1] THEN <<Head(s)>> ELSE <<>>) \o FilterSeq(Tail(s), Tail(keep))

mk_local_ref(n, ctx_ls, ctx_params) ==
    mk_as_atomic(mk_app_args(mk_explicit(mk_constant(n, ctx_ls)),
                             [j \in 1..Len(ctx_params) |-> mk_explicit(ctx_params[j])]))

(* is_local_ref without the test that the argument of as_atomic is an application *)
is_local_ref_noapp(e) ==
    /\ e.k = "as_atomic"
    /\ get_app_fn(e.a[1]).k = "explicit"
    /\ get_app_fn(e.a[1]).a[1].k = "const"
    /\ \A j \in 1..Len(get_app_args(e.a[1])) :
          /\ get_app_args(e.a[1])[j].k = "explicit"
          /\ is_local(get_app_args(e.a[1])[j].a[1])

is_local_ref(e) ==
    /\ e.k = "as_atomic"
    /\ e.a[1].k = "app"
    /\ get_app_fn(e.a[1]).k = "explicit"
    /\ get_app_fn(e.a[1]).a[1].k = "const"
    /\ \A j \in 1..Len(get_app_args(e.a[1])) :
          /\ get_app_args(e.a[1])[j].k = "explicit"
          /\ is_local(get_app_args(e.a[1])[j].a[1])

(* the predicate update_local_ref filters the levels of the constant with *)
keep_level_params_only(l, lvls_to_remove) == is_param(l) /\ l.s \notin lvls_to_remove

keep_level(l, lvls_to_remove) ==
    is_placeholder(l) \/ (is_param(l) /\ l.s \notin lvls_to_remove)

update_local_ref(e, lvls_to_remove, locals_to_remove) ==
    IF locals_to_remove = {} /\ lvls_to_remove = {} THEN e
    ELSE LET locals == get_app_args(e.a[1])
             f      == get_app_fn(e.a[1])
             c      == f.a[1]
             new_f  == IF lvls_to_remove # {}
                       THEN mk_explicit(mk_constant(c.s,
                                FilterSeq(c.ls, [j \in 1..Len(c.ls) |->
                                                    keep_level(c.ls[j], lvls_to_remove)])))
                       ELSE f
             kept   == IF locals_to_remove # {}
                       THEN FilterSeq(locals, [j \in 1..Len(locals) |->
                                mlocal_name(locals[j].a[1]) \notin locals_to_remove])
                       ELSE locals
         IN IF kept = <<>> THEN new_f.a[1] ELSE mk_as_atomic(mk_app_args(new_f, kept))

(***************************************************************************)
(* Parsers, terms and references the utilities are applied to.             *)
(***************************************************************************)
UNames == {"a", "b", "c", "d"}

Ua == mk_local("a", CA)

Ub == mk_local("b", mk_app(CP, Ua))

Uc == mk_local("c", CA)

Ud == mk_local("d", CA)

Undeclared == Decl(FALSE, FALSE, 0)

ParserTables ==
    {[a |-> Decl(TRUE, FALSE, 0), b |-> Decl(TRUE, TRUE, 1), c |-> Decl(TRUE, FALSE, 2),
      d |-> Undeclared],
     [a |-> Decl(TRUE, TRUE, 0), b |-> Decl(TRUE, FALSE, 1), c |-> Decl(TRUE, TRUE, 2),
      d |-> Decl(TRUE, FALSE, 3)],
     [a |-> Decl(TRUE, FALSE, 0), b |-> Decl(TRUE, FALSE, 1), c |-> Decl(TRUE, FALSE, 2),
      d |-> Decl(TRUE, FALSE, 3)]}

(* include variables are declared variables of the parser *)
Parsers ==
    {[decls |-> t, include |-> inc] :
        t \in ParserTables, inc \in {<<>>, <<Uc>>, <<Ub>>}}
    \ {q \in [decls : ParserTables, include : {<<>>, <<Uc>>, <<Ub>>}] :
          \E j \in 1..Len(q.include) : ~q.decls[local_pp_name(q.include[j])].var}

UtilTerms ==
    {CA, Ua, mk_app(mk_app(CQ, Uc), Ub), mk_app(mk_app(CQ, Ud), Ub),
     mk_app(mk_app(CQ, Uc), Expr("by", 0, "", <<>>, <<Ud>>)),
     mk_pi("i", Uc, mk_app(mk_app(CQ, Ua), Ud))}

LocalSets == {{}, {Ua, Ub}, {Ua, Ub, Uc}, {Ub, Uc, Ud}, {Ua, Ub, Uc, Ud}}

RefLevels ==
    {<<>>, <<mk_param_univ("u"), LvlPlaceholder, mk_param_univ("v")>>,
     <<mk_param_univ("u"), LvlZero>>}

RefParams == {<<Ua>>, <<Ua, Ub>>, <<Ub, Uc, Ua>>}

(* the most recent call of a utility, NoUtilCall when another ran since *)
NoUtilCall == [done |-> FALSE, e |-> CA, input |-> <<>>, lvls |-> {}, locals |-> {},
               r |-> <<>>, re |-> CA]

UtilCall(e, input, lvls, locals, r, re) ==
    [done |-> TRUE, e |-> e, input |-> input, lvls |-> lvls, locals |-> locals,
     r |-> r, re |-> re]

UtilIdle ==
    /\ pu_p = [decls |-> [n \in UNames |-> Undeclared], include |-> <<>>]
    /\ pu_sort = NoUtilCall
    /\ pu_ctx = NoUtilCall
    /\ pu_ref = NoUtilCall

UtilInit ==
    /\ pu_p \in Parsers
    /\ pu_sort = NoUtilCall
    /\ pu_ctx = NoUtilCall
    /\ pu_ref = NoUtilCall

(* what the parser utilities leave alone *)
UtilFrame == UNCHANGED <<rwvars, letvars, servars, lcvars, mpvars, pu_p, elvars, scvars, apvars>>

SortLocals ==
    /\ \E S \in LocalSets : \E locals \in OrdersOf(S) :
          pu_sort' = UtilCall(CA, locals, {}, {}, sort_locals(locals, pu_p), CA)
    /\ pu_ctx' = NoUtilCall
    /\ pu_ref' = NoUtilCall
    /\ UtilFrame

LocalsToContext ==
    /\ \E e \in UtilTerms : \E locals \in OrdersOf(collect_locals_ignoring_tactics(e)) :
          pu_ctx' = UtilCall(e, locals, {}, {}, locals_to_context(locals, pu_p), CA)
    /\ pu_sort' = NoUtilCall
    /\ pu_ref' = NoUtilCall
    /\ UtilFrame

UpdateLocalRef ==
    /\ \E ls \in RefLevels, ps \in RefParams,
          lvls \in SUBSET {"u", "v"}, locs \in SUBSET {"a", "b", "c"} :
          /\ is_local_ref(mk_local_ref("f", ls, ps))
          /\ pu_ref' = UtilCall(mk_local_ref("f", ls, ps), ps, lvls, locs, ls,
                                update_local_ref(mk_local_ref("f", ls, ps), lvls, locs))
    /\ pu_sort' = NoUtilCall
    /\ pu_ctx' = NoUtilCall
    /\ UtilFrame

NextUtil ==
    \/ SortLocals
    \/ LocalsToContext
    \/ UpdateLocalRef

(***************************************************************************)
(* Universe levels with children: successor and maximum.                   *)
(***************************************************************************)
LevelNode(k, a) == [k |-> k, s |-> "", a |-> a]

mk_level_zero == LvlZero

mk_succ(l) == LevelNode("succ", <<l>>)

mk_level_one == mk_succ(mk_level_zero)

mk_max(l1, l2) == LevelNode("max", <<l1, l2>>)

mk_meta_univ(s) == Level("meta", s)

is_meta(l) == l.k = "meta"

RECURSIVE has_meta(_)
has_meta(l) == is_meta(l) \/ \E j \in 1..Len(l.a) : has_meta(l.a[j])

(* the kernel's is_not_zero: a successor somewhere on top *)
RECURSIVE is_not_zero(_)
is_not_zero(l) ==
    CASE l.k = "succ" -> TRUE
      [] l.k = "max"  -> is_not_zero(l.a[1]) \/ is_not_zero(l.a[2])
      [] OTHER        -> FALSE

(* the kernel's normalize on levels: the level as a maximum of successors of atoms,  *)
(* without an argument another one subsumes, arguments in a fixed order    *)
Offset(b, o) == [b |-> b, o |-> o]

RECURSIVE Offsets(_)
Offsets(l) ==
    CASE l.k = "succ" -> {Offset(q.b, q.o + 1) : q \in Offsets(l.a[1])}
      [] l.k = "max"  -> Offsets(l.a[1]) \cup Offsets(l.a[2])
      [] OTHER        -> {Offset(l, 0)}

Subsumed(q, S) ==
    \E q2 \in S :
       /\ q2 # q
       /\ \/ q2.b = q.b /\ q2.o > q.o
          \/ q.b = LvlZero /\ q2.b # LvlZero /\ q2.o >= q.o

LevelAtoms ==
    <<LvlZero, mk_param_univ("u"), mk_param_univ("v"), mk_meta_univ("m1"),
      mk_meta_univ("m2"), LvlPlaceholder>>

AtomRank(b) == CHOOSE j \in 1..Len(LevelAtoms) : LevelAtoms[j] = b

RECURSIVE Succs(_, _)
Succs(b, o) == IF o = 0 THEN b ELSE mk_succ(Succs(b, o - 1))

RECURSIVE MaxOfOffsets(_)
MaxOfOffsets(S) ==
    LET q == CHOOSE q1 \in S : \A q2 \in S : AtomRank(q1.b) <= AtomRank(q2.b)
    IN IF Cardinality(S) = 1 THEN Succs(q.b, q.o)
       ELSE mk_max(Succs(q.b, q.o), MaxOfOffsets(S \ {q}))

normalize_level(l) == MaxOfOffsets({q \in Offsets(l) : ~Subsumed(q, Offsets(l))})

RECURSIVE MaxLevels(_, _)
MaxLevels(r, lvls) ==
    IF lvls = <<>> THEN r ELSE MaxLevels(mk_max(r, Head(lvls)), Tail(lvls))

mk_result_level_noraise(impredicative, r_lvls) ==
    IF r_lvls = <<>>
    THEN (IF impredicative THEN mk_level_one ELSE mk_level_zero)
    ELSE normalize_level(normalize_level(MaxLevels(r_lvls[1], Tail(r_lvls))))

mk_result_level(impredicative, r_lvls) ==
    IF r_lvls = <<>>
    THEN (IF impredicative THEN mk_level_one ELSE mk_level_zero)
    ELSE LET r == normalize_level(MaxLevels(r_lvls[1], Tail(r_lvls)))
         IN IF is_not_zero(r) THEN normalize_level(r)
            ELSE IF impredicative THEN normalize_level(mk_max(r, mk_level_one))
            ELSE normalize_level(r)

(***************************************************************************)
(* univ_metavars_to_params.  A pass is its substitution on universe        *)
(* metavariables, the parameter names m_params, the buffer m_new_params,    *)
(* m_next_idx, the local levels and the global universes; log lists the    *)
(* names minted, each with the names it had to avoid.                      *)
(***************************************************************************)
MetaNames == {"m1", "m2"}

Unassigned == [ok |-> FALSE, val |-> LvlZero]

Assigned(l) == [ok |-> TRUE, val |-> l]

Pass(subst, params, new_params, next_idx, lls, univs, minted) ==
    [subst |-> subst, params |-> params, new_params |-> new_params,
     next_idx |-> next_idx, lls |-> lls, univs |-> univs, log |-> minted]

(* name("l").append_after(n) *)
append_after(n) == "l_" \o ToString(n)

Avoided(st) == st.lls \cup st.params \cup st.univs

RECURSIVE FirstFreeIdx(_, _)
FirstFreeIdx(n, st) ==
    IF append_after(n) \in Avoided(st) THEN FirstFreeIdx(n + 1, st) ELSE n

MintedName(n, st) == [name |-> append_after(n), idx |-> n, avoided |-> Avoided(st)]

mk_new_univ_param_noinsert(st) ==
    LET n == FirstFreeIdx(st.next_idx, st)
    IN [l  |-> mk_param_univ(append_after(n)),
        st |-> [st EXCEPT !.next_idx = n,
                          !.new_params = Append(@, append_after(n)),
                          !.log = Append(@, MintedName(n, st))]]

mk_new_univ_param(st) ==
    LET n == FirstFreeIdx(st.next_idx, st)
    IN [l  |-> mk_param_univ(append_after(n)),
        st |-> [st EXCEPT !.next_idx = n,
                          !.params = @ \cup {append_after(n)},
                          !.new_params = Append(@, append_after(n)),
                          !.log = Append(@, MintedName(n, st))]]

(* apply: replace on the level, the functor answering for levels without   *)
(* metavariable and for metavariables, the children visited otherwise      *)
RECURSIVE apply(_, _)
apply(l, st) ==
    IF ~has_meta(l) THEN [l |-> l, st |-> st]
    ELSE IF is_meta(l)
    THEN (IF st.subst[l.s].ok THEN [l |-> st.subst[l.s].val, st |-> st]
          ELSE LET new_p == mk_new_univ_param(st)
               IN [l  |-> new_p.l,
                   st |-> [new_p.st EXCEPT !.subst[l.s] = Assigned(new_p.l)]])
    ELSE IF l.k = "succ"
    THEN LET c == apply(l.a[1], st)
         IN [l |-> mk_succ(c.l), st |-> c.st]
    ELSE LET c1 == apply(l.a[1], st)
             c2 == apply(l.a[2], c1.st)
         IN [l |-> mk_max(c1.l, c2.l), st |-> c2.st]

(* apply on the levels of a list, first to last *)
RECURSIVE apply_levels(_, _)
apply_levels(ls, st) ==
    IF ls = <<>> THEN [ls |-> <<>>, st |-> st]
    ELSE LET h == apply(Head(ls), st)
             t == apply_levels(Tail(ls), h.st)
         IN [ls |-> <<h.l>> \o t.ls, st |-> t.st]

mk_sort(l) == Expr("sort", 0, "", <<l>>, <<>>)

(* the visitor: visit_sort and visit_constant rewrite the levels, every    *)
(* other term has its children visited first to last                       *)
RECURSIVE visit(_, _)
RECURSIVE visit_children(_, _)
visit(e, st) ==
    IF e.k \in {"sort", "const"}
    THEN LET r == apply_levels(e.ls, st)
         IN [e |-> [e EXCEPT !.ls = r.ls], st |-> r.st]
    ELSE LET r == visit_children(e.a, st)
         IN [e |-> [e EXCEPT !.a = r.a], st |-> r.st]

visit_children(a, st) ==
    IF a = <<>> THEN [a |-> <<>>, st |-> st]
    ELSE LET h == visit(Head(a), st)
             t == visit_children(Tail(a), h.st)
         IN [a |-> <<h.e>> \o t.a, st |-> t.st]

(* univ_metavars_to_params: a fresh functor, m_next_idx = 1 *)
univ_metavars_to_params(univs, lls, s, ps, new_ps, e) ==
    visit(e, Pass(s, ps, new_ps, 1, lls, univs, <<>>))

M1 == mk_meta_univ("m1")

M2 == mk_meta_univ("m2")

PassTerms ==
    {mk_sort(M1),
     mk_constant("c", <<M1, mk_succ(M2), M1>>),
     mk_app(mk_constant("c", <<mk_max(M2, mk_param_univ("u"))>>), mk_sort(mk_succ(M1))),
     mk_pi("x", mk_local("a", mk_sort(M2)), mk_app(mk_constant("c", <<M1>>), mk_sort(M2))),
     mk_app(CQ, mk_sort(mk_param_univ("u")))}

PassSubsts ==
    {[m \in MetaNames |-> Unassigned],
     [m \in MetaNames |-> IF m = "m1" THEN Assigned(mk_param_univ("u")) ELSE Unassigned],
     [m \in MetaNames |-> IF m = "m1" THEN Assigned(mk_succ(M2)) ELSE Unassigned],
     [m \in MetaNames |-> IF m = "m2" THEN Assigned(LvlZero) ELSE Unassigned]}

PassParams == {{}, {"l_1"}, {"u", "l_2"}}

PassLocalLevels == {{}, {"l_1"}, {"l_3"}}

PassUniverses == {{}, {"l_2"}}

(***************************************************************************)
(* Terms and levels the elaboration utilities are applied to.              *)
(***************************************************************************)
(* references built by mk_local_ref, and terms of other shapes *)
RefsBuilt(paramLists) ==
    {mk_local_ref(n, ls, ps) : n \in {"f", "Q"}, ls \in RefLevels, ps \in paramLists}

OtherShapes ==
    {CA, Ua, mk_explicit(CQ), mk_as_atomic(Ua), mk_as_atomic(mk_explicit(Ua)),
     mk_app(mk_explicit(CQ), mk_explicit(Ua)),
     mk_as_atomic(mk_app(CQ, mk_explicit(Ua))),
     mk_as_atomic(mk_app(mk_explicit(Ua), mk_explicit(Ub))),
     mk_as_atomic(mk_app(mk_explicit(CQ), Ua)),
     mk_as_atomic(mk_app(mk_explicit(CQ), mk_explicit(CA))),
     mk_as_atomic(mk_app(mk_app(mk_explicit(CQ), mk_explicit(Ua)), Ub))}

DomainLevels ==
    {mk_level_zero, mk_level_one, mk_param_univ("u"), mk_param_univ("v"),
     mk_succ(mk_param_univ("u")), mk_max(mk_param_univ("u"), mk_level_zero)}

RECURSIVE SeqsUpTo(_, _)
SeqsUpTo(S, n) ==
    IF n = 0 THEN {<<>>}
    ELSE SeqsUpTo(S, n - 1) \cup {Append(q, x) : q \in SeqsUpTo(S, n - 1), x \in S}

ElCall(op, e, b, lvls, imp, r, re, st0, st) ==
    [op |-> op, e |-> e, b |-> b, lvls |-> lvls, imp |-> imp, r |-> r, re |-> re,
     st0 |-> st0, st |-> st]

NoPass == Pass([m \in MetaNames |-> Unassigned], {}, <<>>, 1, {}, {}, <<>>)

ElabIdle == el_call = ElCall("none", CA, FALSE, <<>>, FALSE, LvlZero, CA, NoPass, NoPass)

ElabInit == ElabIdle

(* what the elaboration utilities leave alone *)
ElabFrame == UNCHANGED <<rwvars, letvars, servars, lcvars, mpvars, puvars, scvars, apvars>>

IsLocalRef ==
    /\ \E e \in RefsBuilt(RefParams \cup {<<>>}) \cup OtherShapes :
          el_call' = ElCall("is_local_ref", e, is_local_ref(e), <<>>, FALSE, LvlZero, CA,
                            NoPass, NoPass)
    /\ ElabFrame

MkResultLevel ==
    /\ \E impredicative \in BOOLEAN, r_lvls \in SeqsUpTo(DomainLevels, MaxLvls) :
          el_call' = ElCall("mk_result_level", CA, FALSE, r_lvls, impredicative,
                            mk_result_level(impredicative, r_lvls), CA, NoPass, NoPass)
    /\ ElabFrame

UnivMetavarsToParams ==
    /\ \E e \in PassTerms, s \in PassSubsts, ps \in PassParams,
          lls \in PassLocalLevels, univs \in PassUniverses :
          LET r == univ_metavars_to_params(univs, lls, s, ps, <<>>, e)
          IN el_call' = ElCall("univ_metavars_to_params", e, FALSE, <<>>, FALSE, LvlZero,
                               r.e, Pass(s, ps, <<>>, 1, lls, univs, <<>>), r.st)
    /\ ElabFrame

NextElab ==
    \/ IsLocalRef
    \/ MkResultLevel
    \/ UnivMetavarsToParams

(***************************************************************************)
(* consume_until_end.                                                      *)
(***************************************************************************)
ScanIdle ==
    /\ sc_toks = <<>>
    /\ sc_pos = 1
    /\ sc_from = 1
    /\ sc_pc = "idle"

ScTok(kind, name) == [kind |-> kind, name |-> name]

ScEof == ScTok("Eof", "")

get_end_tk == "end"

TokenPool ==
    {ScTok("Keyword", "end"), ScTok("Keyword", "begin"),
     ScTok("Identifier", "end"), ScTok("Identifier", "x")}

(* p.curr(): past the last token the scanner gives Eof *)
curr(toks, pos) == IF pos > Len(toks) THEN ScEof ELSE toks[pos]

(* p.curr_is_token_or_id(tk) *)
curr_is_token_or_id(toks, pos, tk) ==
    curr(toks, pos).kind \in {"Keyword", "Identifier"} /\ curr(toks, pos).name = tk

(* p.curr_is_token(tk) *)
curr_is_token(toks, pos, tk) ==
    curr(toks, pos).kind = "Keyword" /\ curr(toks, pos).name = tk

(* p.next(): scanning at Eof gives Eof again *)
next(toks, pos) == IF pos > Len(toks) THEN pos ELSE pos + 1

(* consume_until_end is called with the parser at any token of its input *)
ScanInit ==
    /\ sc_toks \in SeqsUpTo(TokenPool, MaxToks)
    /\ sc_pos \in 1..(Len(sc_toks) + 1)
    /\ sc_from = sc_pos
    /\ sc_pc = "while"

(* what consume_until_end leaves alone *)
ScanFrame == UNCHANGED <<rwvars, letvars, servars, lcvars, mpvars, puvars, elvars, apvars>>

(* the loop body: the current token is neither "end" nor Eof *)
ConsumeSkip ==
    /\ sc_pc = "while"
    /\ ~curr_is_token(sc_toks, sc_pos, get_end_tk)
    /\ curr(sc_toks, sc_pos).kind # "Eof"
    /\ sc_pos' = next(sc_toks, sc_pos)
    /\ UNCHANGED <<sc_toks, sc_from, sc_pc>>
    /\ ScanFrame

(* the return inside the loop *)
ConsumeEof ==
    /\ sc_pc = "while"
    /\ ~curr_is_token(sc_toks, sc_pos, get_end_tk)
    /\ curr(sc_toks, sc_pos).kind = "Eof"
    /\ sc_pc' = "done"
    /\ UNCHANGED <<sc_toks, sc_from, sc_pos>>
    /\ ScanFrame

(* the loop exit and the p.next() after it *)
ConsumeEnd ==
    /\ sc_pc = "while"
    /\ curr_is_token(sc_toks, sc_pos, get_end_tk)
    /\ sc_pos' = next(sc_toks, sc_pos)
    /\ sc_pc' = "done"
    /\ UNCHANGED <<sc_toks, sc_from>>
    /\ ScanFrame

NextScan ==
    \/ ConsumeSkip
    \/ ConsumeEof
    \/ ConsumeEnd

(***************************************************************************)
(* Single applications (process_rewrite_single_step, process_fold_step,    *)
(* process_reduce_step) and single searches (find_target as called by      *)
(* process_rewrite_goal and process_rewrite_hypothesis).                   *)
(***************************************************************************)
AppHypsA == <<Hyp("h1", Term("other", <<Sub("a", "unif"), Ok("a")>>)),
              Hyp("h2", Term("other", <<Ok("c"), Sub("a", "mvars")>>))>>

AppHypsB == <<Hyp("h1", Term("other", <<Sub("b", "symm_exc"), Ok("b")>>)),
              Hyp("h2", Term("other", <<Sub("a", "assign"), Ok("d1")>>))>>

AppTypes ==
    {Term("other", <<Sub("a", "symm_exc"), Ok("a"), Ok("c")>>),
     Term("other", <<Sub("a", "symm_exc"), Ok("c")>>),
     Term("other", <<Sub("a", "exc"), Sub("a", "assign")>>),
     Term("other", <<Ok("b"), Ok("d1")>>),
     Term("eq", <<Ok("d2"), Sub("a", "unif")>>)}

AppGoals == {Goal(1, hs, t) : hs \in {AppHypsA, AppHypsB}, t \in AppTypes}

AppLocs == {LocGoalOnly, LocHyps({"h1", "h2"}, TRUE), LocHyps({"h2"}, FALSE),
            LocHyps({"h1"}, TRUE)}

AppRewrites == {Elem(Rab, symm, "Once", 0, loc, "") : symm \in BOOLEAN, loc \in AppLocs}

AppFolds == {FoldStep(s, loc) : s \in {"d1", "c"}, loc \in AppLocs}

AppReduces ==
    {Reduce(loc) : loc \in AppLocs}
    \cup {ReduceTo(Term("other", <<Ok("a"), Ok("a")>>), loc) : loc \in AppLocs}

AppWork(g) == Work(g, {}, FirstNgen, <<>>)

ApCall(op, elem, use_trace, target, w0, pos, ok, w) ==
    [op |-> op, elem |-> elem, use_trace |-> use_trace, target |-> target,
     w0 |-> w0, pos |-> pos, ok |-> ok, w |-> w]

AppIdle ==
    ap_call = ApCall("none", Reduce(LocGoalOnly), FALSE, 0,
                     AppWork(Goal(1, <<>>, TrueProp)), 0, FALSE,
                     AppWork(Goal(1, <<>>, TrueProp)))

AppInit == AppIdle

(* what a single application leaves alone *)
AppFrame == UNCHANGED <<rwvars, letvars, servars, lcvars, mpvars, puvars, elvars, scvars>>

(* the type find_target searches: target 0 is the goal, k > 0 the k-th hypothesis *)
TargetType(g, k) == IF k = 0 THEN g.type ELSE g.hyps[k].type

TargetName(g, k) == IF k = 0 THEN "goal" ELSE g.hyps[k].name

(* add_target followed by find_target, as process_rewrite_goal and *)
(* process_rewrite_hypothesis call them                            *)
FindTarget ==
    /\ \E g \in AppGoals, elem \in AppRewrites, k \in 0..Len(AppHypsA),
          use_trace \in BOOLEAN :
          LET w0 == AppWork(g)
              f  == find_target(add_target(w0, TargetName(g, k), k # 0, use_trace),
                                TargetType(g, k), get_pattern(elem), elem, k = 0, 1,
                                use_trace)
          IN  ap_call' = ApCall("find_target", elem, use_trace, k, w0, f.pos,
                                f.pos # 0, f.w)
    /\ AppFrame

ApplyRewrite ==
    /\ \E g \in AppGoals, elem \in AppRewrites, use_trace \in BOOLEAN :
          LET w0 == AppWork(g)
              r  == process_rewrite_single_step(w0, elem, get_pattern(elem), use_trace)
          IN  ap_call' = ApCall("rewrite", elem, use_trace, 0, w0, 0, r.ok, r.w)
    /\ AppFrame

ApplyFold ==
    /\ \E g \in AppGoals, elem \in AppFolds :
          LET w0 == AppWork(g)
              r  == process_fold_step(w0, elem)
          IN  ap_call' = ApCall("fold", elem, FALSE, 0, w0, 0, r.ok, r.w)
    /\ AppFrame

ApplyReduce ==
    /\ \E g \in AppGoals, elem \in AppReduces :
          LET w0 == AppWork(g)
              r  == process_reduce_step(w0, elem)
          IN  ap_call' = ApCall("reduce", elem, FALSE, 0, w0, 0, r.ok, r.w)
    /\ AppFrame

NextApp ==
    \/ FindTarget
    \/ ApplyRewrite
    \/ ApplyFold
    \/ ApplyReduce

vars == <<rwvars, letvars, servars, lcvars, mpvars, puvars, elvars, scvars, apvars>>

Init == RwInit /\ LetIdle /\ SerIdle /\ CtxIdle /\ PoolIdle /\ UtilIdle /\ ElabIdle /\ ScanIdle /\ AppIdle

Spec == Init /\ [][Next]_vars

InitLet == LetInit /\ RwIdle /\ SerIdle /\ CtxIdle /\ PoolIdle /\ UtilIdle /\ ElabIdle /\ ScanIdle /\ AppIdle

SpecLet == InitLet /\ [][NextLet]_vars

InitSer == SerIdle /\ LetIdle /\ RwIdle /\ CtxIdle /\ PoolIdle /\ UtilIdle /\ ElabIdle /\ ScanIdle /\ AppIdle

SpecSer == InitSer /\ [][NextSer]_vars

InitCtx == CtxInit /\ RwIdle /\ LetIdle /\ SerIdle /\ PoolIdle /\ UtilIdle /\ ElabIdle /\ ScanIdle /\ AppIdle

SpecCtx == InitCtx /\ [][NextCtx]_vars

InitPool == PoolInit /\ RwIdle /\ LetIdle /\ SerIdle /\ CtxIdle /\ UtilIdle /\ ElabIdle /\ ScanIdle /\ AppIdle

SpecPool == InitPool /\ [][NextPool]_vars

InitUtil == UtilInit /\ RwIdle /\ LetIdle /\ SerIdle /\ CtxIdle /\ PoolIdle /\ ElabIdle /\ ScanIdle /\ AppIdle

SpecUtil == InitUtil /\ [][NextUtil]_vars

InitElab == ElabInit /\ RwIdle /\ LetIdle /\ SerIdle /\ CtxIdle /\ PoolIdle /\ UtilIdle /\ ScanIdle /\ AppIdle

SpecElab == InitElab /\ [][NextElab]_vars

InitScan == ScanInit /\ RwIdle /\ LetIdle /\ SerIdle /\ CtxIdle /\ PoolIdle /\ UtilIdle /\ ElabIdle /\ AppIdle

(* the parser runs consume_until_end to its end: a statement that can be   *)
(* executed is executed                                                    *)
SpecScan == InitScan /\ [][NextScan]_vars /\ WF_vars(NextScan)

InitApp == AppInit /\ RwIdle /\ LetIdle /\ SerIdle /\ CtxIdle /\ PoolIdle /\ UtilIdle /\ ElabIdle /\ ScanIdle

SpecApp == InitApp /\ [][NextApp]_vars

(***************************************************************************)
(* Properties of the rewrite invocation.                                   *)
(***************************************************************************)
(* the step that finished last is the one the loop is positioned on *)
LastDone == Len(log) > 0 /\ Len(log) = Len(started)

Last == log[Len(log)]

LastElem == elems[Last.idx]

(* the last step has just returned or thrown: Finish has not run yet *)
AfterStep == LastDone /\ ~(pc = "done" /\ Last.res = "ok")

LastIs(mult) == AfterStep /\ LastElem.kind = "rewrite" /\ LastElem.mult = mult

(* C1: steps are processed strictly in order, each only after all earlier  *)
(* ones succeeded; the first failing step ends the invocation without a    *)
(* successor state: a tactic failure naming that step when the proof state *)
(* reports failures, the empty sequence otherwise.                         *)
C1_InOrderFirstFailureAborts ==
    /\ \A k \in 1..Len(started) : started[k] = k
    /\ Len(log) \in {Len(started) - 1, Len(started)}
    /\ \A k \in 1..Len(log) : log[k].idx = k
    /\ \A k \in 1..Len(started) : \A j \in 1..(k - 1) : log[j].res = "ok"
    /\ \A k \in 1..Len(log) :
          log[k].res = "fail" =>
             /\ k = Len(log) /\ k = Len(started) /\ k = Len(elems)
             /\ pc = "done"
             /\ outcome.states = <<>>
             /\ IF m_ps.report_failure
                THEN outcome.kind = "tactic_exception" /\ outcome.elem = k
                ELSE outcome.kind = "seq"

C1_Witness ==
    /\ Len(log) = 2 /\ log[1].res = "ok" /\ log[2].res = "fail"
    /\ outcome.kind = "tactic_exception" /\ outcome.elem = 2

(* C2 as claimed: the failure of an ExactlyN step carries the proof state  *)
(* as it was before the step started.                                      *)
C2_Original ==
    (LastIs("ExactlyN") /\ outcome.kind = "tactic_exception") =>
        /\ Head(outcome.ps.goals) = pre.g
        /\ outcome.ps.subst = pre.subst

(* C2 amended: the failure of an ExactlyN step carries the working state   *)
(* at the moment of failure: the working goal after the applications that  *)
(* succeeded, followed by the other goals, and the substitution with the   *)
(* assignments those applications made; it is the state before the step    *)
(* only when no application succeeded.                                     *)
C2_FailureCarriesWorkingState ==
    (LastIs("ExactlyN") /\ outcome.kind = "tactic_exception") =>
        /\ Last.res = "fail"
        /\ napps < LastElem.num
        /\ outcome.ps.goals = <<m_g>> \o Tail(m_ps.goals)
        /\ outcome.ps.subst = m_subst
        /\ pre.subst \subseteq outcome.ps.subst
        /\ Cardinality(outcome.ps.subst \ pre.subst) >= napps
        /\ (Head(outcome.ps.goals) = pre.g /\ outcome.ps.subst = pre.subst) => napps = 0
        /\ napps = 0 => Head(outcome.ps.goals) = pre.g

C2_Witness ==
    /\ LastIs("ExactlyN") /\ outcome.kind = "tactic_exception"
    /\ LastElem.num = 3 /\ napps = 2
    /\ Head(outcome.ps.goals) # pre.g

(* C3 as claimed: an AtMostN step always reports success. *)
C3_Original == LastIs("AtMostN") => Last.res = "ok"

(* C3 amended: an AtMostN(n) step never reports failure; it returns        *)
(* success when an application fails or when n < max_iter applications     *)
(* were made, and raises the ceiling-exceeded error when max_iter <= n and *)
(* max_iter applications succeeded (max_iter = 0 included).  ExactlyN(n)   *)
(* raises the same error under the same condition.                         *)
C3_AtMostNCeiling ==
    /\ LastIs("AtMostN") =>
          /\ Last.res # "fail"
          /\ Last.res = "throw" <=> (m_max_iter <= LastElem.num /\ napps = m_max_iter)
          /\ Last.res = "throw" => outcome.kind = "max_iter_exceeded"
          /\ napps <= LastElem.num
    /\ LastIs("ExactlyN") =>
          /\ Last.res = "throw" <=> (m_max_iter <= LastElem.num /\ napps = m_max_iter)
          /\ Last.res = "ok" <=> (napps = LastElem.num /\ LastElem.num < m_max_iter)

C3_Witness ==
    /\ LastIs("AtMostN") /\ Last.res = "throw"
    /\ napps = m_max_iter /\ m_max_iter > 0 /\ m_max_iter = LastElem.num

(* an application of elem to the working state the step started from *)
(* finds no match: it fails and records a match on none of its targets *)
NoMatchAtStart(elem) ==
    LET r == process_rewrite_single_step(Work(pre.g, pre.subst, 0, <<>>), elem,
                                         get_pattern(elem), TRUE)
    IN  ~r.ok /\ \A k \in 1..Len(r.w.targs) : r.w.targs[k].matched = 0

(* C4 as claimed: a ZeroOrMore step whose first application finds no match *)
(* reports success with goal and substitution unchanged, for every         *)
(* max_iter including 0.                                                   *)
C4_Original ==
    (LastIs("ZeroOrMore") /\ NoMatchAtStart(LastElem)) =>
        /\ Last.res = "ok"
        /\ m_g = pre.g /\ m_subst = pre.subst

(* C4 amended: for every max_iter >= 1, a ZeroOrMore step whose first      *)
(* application finds no match reports success with goal and substitution   *)
(* unchanged; with max_iter = 0 no application is tried and the step       *)
(* raises the ceiling-exceeded error.  A ZeroOrMore step never reports     *)
(* failure.                                                                *)
C4_ZeroOrMoreNoMatch ==
    LastIs("ZeroOrMore") =>
        /\ Last.res # "fail"
        /\ (NoMatchAtStart(LastElem) /\ m_max_iter >= 1) =>
              /\ Last.res = "ok"
              /\ napps = 0
              /\ m_g = pre.g /\ m_subst = pre.subst
        /\ m_max_iter = 0 =>
              /\ Last.res = "throw"
              /\ m_g = pre.g /\ m_subst = pre.subst

C4_Witness ==
    /\ LastIs("ZeroOrMore") /\ NoMatchAtStart(LastElem)
    /\ m_max_iter >= 1 /\ Last.res = "ok" /\ m_g = pre.g

IsRepeated(elem) == elem.kind = "rewrite" /\ elem.mult # "Once"

(* C5 as claimed: every repeated policy makes at most max_iter successful  *)
(* applications in one step.                                               *)
C5_Original ==
    (Len(started) > 0 /\ IsRepeated(elems[Len(started)])) => napps <= m_max_iter

(* C5 amended: AtMostN, ExactlyN and ZeroOrMore make at most max_iter      *)
(* successful applications in one step and OneOrMore at most max_iter + 1  *)
(* (its first application precedes the counted loop); a ZeroOrMore step    *)
(* whose rule keeps applying ends after max_iter applications, a OneOrMore *)
(* step after max_iter + 1, by raising the maximum-iterations error that   *)
(* names the threshold max_iter.                                           *)
C5_IterationCeiling ==
    (Len(started) > 0 /\ IsRepeated(elems[Len(started)])) =>
        LET elem == elems[Len(started)]
            lead == IF elem.mult = "OneOrMore" THEN 1 ELSE 0
        IN  /\ napps <= m_max_iter + lead
            /\ (LastDone /\ Last.res = "throw") =>
                  /\ outcome.kind = "max_iter_exceeded"
                  /\ outcome.threshold = m_max_iter
                  /\ napps = m_max_iter + lead
            /\ (LastDone /\ ~has_num(elem.mult) /\ napps = m_max_iter + lead) =>
                  Last.res = "throw"

C5_Witness ==
    /\ LastIs("ZeroOrMore") /\ Last.res = "throw"
    /\ napps = m_max_iter /\ m_max_iter = MaxIterBound
    /\ outcome.threshold = MaxIterBound

(* names a finished unfold / plain reduce step passes to reduce *)
NamesOf(elem) == IF elem.kind = "unfold" THEN elem.names ELSE {}

IsReduceOnGoal(elem) ==
    /\ elem.kind = "unfold" \/ (elem.kind = "reduce" /\ elem.nargs = 0)
    /\ is_goal_only(elem.loc)

(* C6: reduction of one target succeeds exactly when normalisation left no *)
(* constraints and, for a non-empty name list, one of the named constants  *)
(* was unfolded; with an empty list the absence of constraints suffices.   *)
(* An unfold step naming a constant that does not occur in the goal fails. *)
C6_ReduceSucceedsIff ==
    (AfterStep /\ IsReduceOnGoal(LastElem)) =>
        LET names == NamesOf(LastElem)
            t     == pre.g.type
            nocs  == "m" \notin SymsOf(t)
            some  == \E j \in 1..Len(t.args) : t.args[j].sym \in names /\ HasDef(t.args[j].sym)
        IN  /\ Last.res = "ok" <=> (nocs /\ (names = {} \/ some))
            /\ (names # {} /\ names \cap SymsOf(t) = {}) => Last.res = "fail"
            /\ Last.res = "fail" => (m_g = pre.g /\ m_subst = pre.subst)
            /\ Last.res = "ok" =>
                  /\ m_g.mvar # pre.g.mvar
                  /\ Len(m_g.type.args) = Len(t.args)
                  /\ \A j \in 1..Len(t.args) :
                        /\ ~(m_g.type.args[j].sym \in names /\ HasDef(m_g.type.args[j].sym))
                        /\ t.args[j].sym \notin names => m_g.type.args[j] = t.args[j]

C6_Witness ==
    /\ AfterStep /\ LastElem.kind = "unfold" /\ is_goal_only(LastElem.loc)
    /\ LastElem.names \cap SymsOf(pre.g.type) = {}
    /\ "m" \notin SymsOf(pre.g.type)
    /\ Last.res = "fail"

AllStepsSucceeded ==
    /\ pc = "done"
    /\ \A k \in 1..Len(log) : log[k].res = "ok"

(* the goal is closed by reflexivity or by true-introduction *)
ClosedTrivially(g) ==
    \/ g.type.rel = "true"
    \/ /\ g.type.rel = "eq" \/ (g.type.rel = "iff" /\ m_env.impredicative)
       /\ Len(g.type.args) = 2
       /\ FullNorm(g.type.args[1].sym) = FullNorm(g.type.args[2].sym)
       /\ "m" \notin SymsOf(g.type)

(* C7: when every step succeeds (the empty list included) exactly one      *)
(* successor state is produced; its goals are the tail of the input goals  *)
(* when the final working goal is trivial, else the working goal followed  *)
(* by that tail.  The goals after the first are kept as they were.         *)
C7_OneSuccessorTailKept ==
    /\ Len(outcome.states) <= 1
    /\ Len(outcome.states) = 1 => AllStepsSucceeded
    /\ AllStepsSucceeded =>
          /\ outcome.kind = "seq"
          /\ Len(outcome.states) = 1
          /\ outcome.states[1].goals =
                IF ClosedTrivially(m_g) THEN OtherGoals ELSE <<m_g>> \o OtherGoals
          /\ Tail(m_ps.goals) = OtherGoals
          /\ outcome.states[1].subst = m_subst

C7_Witness ==
    /\ AllStepsSucceeded
    /\ Len(log) >= 1
    /\ m_g.type # Head(m_ps.goals).type
    /\ ClosedTrivially(m_g)
    /\ ~ClosedTrivially(Head(m_ps.goals))
    /\ outcome.states[1].goals = OtherGoals

(* C8 as claimed: with tracing enabled every reported step failure carries *)
(* the trace of the failing step, with tracing disabled the generic        *)
(* message.                                                                *)
C8_Original ==
    outcome.kind = "tactic_exception" =>
        /\ m_use_trace => (~outcome.generic /\ outcome.trace.lemma = outcome.elem)
        /\ ~m_use_trace => outcome.generic

(* C8 amended: a reported step failure carries the structured trace        *)
(* exactly when tracing is enabled and the failing step is an element      *)
(* step; a failing fold, unfold or reduce step carries the generic message *)
(* also with tracing enabled, and so does every failure with tracing       *)
(* disabled.  The trace carried is the one of the failing step, never one  *)
(* recorded for an earlier step.                                           *)
C8_TraceOfFailingElement ==
    outcome.kind = "tactic_exception" =>
        LET elem == elems[outcome.elem]
        IN  /\ outcome.generic <=> ~(m_use_trace /\ elem.kind = "rewrite")
            /\ ~outcome.generic =>
                  /\ outcome.trace.lemma = outcome.elem
                  /\ outcome.trace.pattern = get_pattern(elem)
                  /\ Len(outcome.trace.targets) >= 1
                  /\ Len(outcome.trace.targets) <= (napps + 1) * (Cardinality(HypNames) + 1)

C8_Witness ==
    /\ outcome.kind = "tactic_exception"
    /\ ~outcome.generic
    /\ outcome.elem = 2
    /\ elems[1].kind = "rewrite"
    /\ outcome.trace.lemma = 2

(***************************************************************************)
(* Properties of the let-value id generator.                               *)
(***************************************************************************)
(* the (call, id) pairs handed out so far: finished and in-flight calls *)
HandedOut ==
    {<<created[k].call, created[k].def.m_id>> : k \in 1..Len(created)}
    \cup {<<lv_call[t], lv_id[t]>> : t \in {u \in Threads : lv_pc[u] = "cell"}}

(* C9: in every interleaving no two let-value instances receive the same   *)
(* id, and the ids handed out are exactly 0, 1, 2, ... without a gap or a  *)
(* repetition.                                                             *)
C9_IdsDistinctAndDense ==
    /\ \A p, q \in HandedOut : p[1] # q[1] => p[2] # q[2]
    /\ {p[2] : p \in HandedOut} = 0..(calls - 1)
    /\ \A p \in HandedOut : p[2] = p[1] - 1

(* C10: wrappers produced by different mk_let_value calls are never equal, *)
(* also around the same sub-term, and every wrapper is equal to itself.    *)
C10_DistinctCallsUnequal ==
    /\ \A j, k \in 1..Len(created) : j # k => ~expr_eq(created[j], created[k])
    /\ \A j \in 1..Len(created) : expr_eq(created[j], created[j])

(***************************************************************************)
(* Properties of the macro serializers.                                    *)
(***************************************************************************)
(* the reader was handed as many sub-terms as the written node has *)
HonestRead == ser_pc = "read" /\ ser_num = Len(ser_node.args)

SameFields(x, y) ==
    /\ x.def.kind = y.def.kind
    /\ x.def.info.m_var_name = y.def.info.m_var_name
    /\ x.def.info.m_symm = y.def.info.m_symm
    /\ x.def.info.m_multiplicity = y.def.info.m_multiplicity
    /\ x.def.info.m_num = y.def.info.m_num
    /\ x.def.info.m_location = y.def.info.m_location
    /\ x.def.info.m_names = y.def.info.m_names
    /\ x.args = y.args

(* C11: writing a node of any macro kind and reading it back yields a node *)
(* equal by that kind's equality: equal to the written node, with the same *)
(* fields and sub-terms, for let and the four rewrite kinds, while a       *)
(* let-value node read back is equal to itself and to no other let-value;  *)
(* the reader consumes exactly the items the writer emitted.               *)
C11_RoundTripEqual ==
    HonestRead =>
        /\ ser_res.ok
        /\ ser_pos = Len(ser_stream)
        /\ SameFields(ser_res.node, ser_node)
        /\ ser_node.def.kind # "LetV" => macro_eq(ser_res.node, ser_node)
        /\ ser_node.def.kind = "LetV" =>
              /\ macro_eq(ser_res.node, ser_res.node)
              /\ ~macro_eq(ser_res.node, ser_node)
              /\ \A k \in 1..(Len(created) - 1) :
                    created[k].def.m_id # ser_res.node.def.info.m_id

(* the sub-term counts the wire tags are specified with *)
TagCounts(tag) ==
    CASE tag = "LetV" -> {1} [] tag = "Let" -> {2} [] tag = "RWR" -> {0, 1}
      [] tag = "RWF" -> {1} [] tag = "RWU" -> {0} [] tag = "RWE" -> {1, 2}

(* C12: a macro deserializer accepts exactly the sub-term counts of its    *)
(* wire tag; for any other count it fails with the corrupted-stream error  *)
(* having read nothing after the opcode and having built no node (no cell  *)
(* allocated, no let-value id minted).                                     *)
C12_BadCountCorrupted ==
    ser_pc = "read" =>
        IF ser_num \in TagCounts(ser_node.def.kind)
        THEN ser_res.ok
        ELSE /\ ~ser_res.ok
             /\ ser_res.node = NoNode
             /\ ser_pos = 1
             /\ ser_heap = ser_pre.heap
             /\ g_next_let_value_id = ser_pre.id
             /\ Len(created) = ser_pre.created

C12_Witness ==
    /\ ser_pc = "read"
    /\ ser_node.def.kind = "RWE"
    /\ ser_num = 3
    /\ ~ser_res.ok
    /\ Len(ser_stream) > 1

(***************************************************************************)
(* Properties of the local context.                                        *)
(***************************************************************************)
(* C13: after construction from a list and any sequence of add_local calls *)
(* the concrete and the abstracted list have the same length, and entry j  *)
(* of the abstracted list is the abstraction of entry j of the concrete    *)
(* list over the entries added before it.                                  *)
C13_ParallelLists ==
    /\ Len(m_ctx) = Len(m_ctx_abstracted)
    /\ \A j \in 1..Len(m_ctx) :
          m_ctx_abstracted[j] = abstract_locals(m_ctx[j], Suffix(m_ctx, j + 1))

C13_Witness ==
    /\ Len(m_ctx) = 3
    /\ m_ctx[3] = LX
    /\ m_ctx[1] = LZ
    /\ m_ctx_abstracted[1] # m_ctx[1]

RECURSIVE LocalNames(_)
LocalNames(e) ==
    (IF is_local(e) THEN {mlocal_name(e)} ELSE {})
    \cup UNION {LocalNames(e.a[j]) : j \in 1..Len(e.a)}

RECURSIVE VarsOf(_)
VarsOf(e) ==
    (IF e.k = "var" THEN {e.n} ELSE {}) \cup UNION {VarsOf(e.a[j]) : j \in 1..Len(e.a)}

(* the locals referred to inside entry e of the abstracted list *)
RefsOf(e) == IF is_local(e) THEN LocalNames(mlocal_type(e)) ELSE LocalNames(e)

(* C14 as claimed: no abstracted entry refers to a local constant.         *)
C14_Original == \A j \in 1..Len(m_ctx_abstracted) : RefsOf(m_ctx_abstracted[j]) = {}

(* C14: no abstracted entry refers to a local that was in the context when *)
(* the entry was added; those references are bound-variable indices.  A    *)
(* reference to a local that was not in the context then stays a local.    *)
C14_EarlierLocalsAbstracted ==
    \A j \in 1..Len(m_ctx_abstracted) :
        /\ RefsOf(m_ctx_abstracted[j])
             \cap {mlocal_name(m_ctx[h]) : h \in (j + 1)..Len(m_ctx)} = {}
        /\ is_local(m_ctx_abstracted[j]) =>
              RefsOf(m_ctx_abstracted[j])
                = LocalNames(mlocal_type(m_ctx[j]))
                  \ {mlocal_name(m_ctx[h]) : h \in (j + 1)..Len(m_ctx)}

C14_Witness ==
    /\ Len(m_ctx) = 3
    /\ m_ctx[1] = LZ /\ m_ctx[2] = LW /\ m_ctx[3] = LX
    /\ VarsOf(mlocal_type(m_ctx_abstracted[1])) = {0, 2}
    /\ RefsOf(m_ctx_abstracted[2]) = {"u"}

(* the n outermost binders of e, from the outside, and what is under them *)
RECURSIVE Binders(_, _)
Binders(e, n) ==
    IF n = 0 THEN [ok |-> TRUE, names |-> <<>>, doms |-> <<>>, body |-> e]
    ELSE IF e.k # "pi" THEN [ok |-> FALSE, names |-> <<>>, doms |-> <<>>, body |-> e]
    ELSE LET b == Binders(e.a[2], n - 1) IN
         [ok |-> b.ok, names |-> <<e.s>> \o b.names, doms |-> <<e.a[1]>> \o b.doms,
          body |-> b.body]

(* the last n arguments of an application, first applied first, and its head *)
RECURSIVE Spine(_, _)
Spine(e, n) ==
    IF n = 0 THEN [ok |-> TRUE, head |-> e, args |-> <<>>]
    ELSE IF e.k # "app" THEN [ok |-> FALSE, head |-> e, args |-> <<>>]
    ELSE LET sp == Spine(e.a[1], n - 1) IN
         [ok |-> sp.ok, head |-> sp.head, args |-> Append(sp.args, e.a[2])]

(* C15: pi_abstract_context(t) has one Pi binder per context local, the    *)
(* outermost for the earliest-added local; apply_context(f) applies f to   *)
(* the context locals earliest-added first; the k-th argument is the local *)
(* of the k-th binder from the outside, and instantiating the binders with *)
(* the arguments gives back the binder types and t.                        *)
C15_PiApplyConverse ==
    (lc_pi.done /\ lc_app.done) =>
        LET n  == Len(m_ctx)
            b  == Binders(lc_pi.r, n)
            sp == Spine(lc_app.r, n)
        IN /\ b.ok /\ sp.ok
           /\ sp.head = lc_app.e
           /\ \A k \in 1..n : sp.args[k] = m_ctx[n + 1 - k]
           /\ \A k \in 1..n : b.names[k] = local_pp_name(sp.args[k])
           /\ \A k \in 1..n :
                 instantiate(b.doms[k], Reverse(SubSeq(sp.args, 1, k - 1)), 0)
                   = mlocal_type(sp.args[k])
           /\ instantiate(b.body, Reverse(sp.args), 0) = lc_pi.e

C15_Witness ==
    /\ lc_pi.done /\ lc_app.done
    /\ Len(m_ctx) = 3
    /\ m_ctx[3] = LX /\ m_ctx[2] = LY /\ m_ctx[1] = LZ
    /\ lc_pi.e = mk_pi("j", CA, mk_app(mk_app(CQ, LY), mk_app(mk_var(0), LZ)))
    /\ lc_pi.r # lc_pi.e

(* C16: abstract_locals(e, locals) leaves no listed local in its result;   *)
(* the local at list position i found under d binders has become variable  *)
(* d + i and nothing else has changed, so that instantiating these         *)
(* variables with the list gives e back; e is returned unchanged when it   *)
(* mentions no listed local; applying abstract_locals to the result again  *)
(* changes nothing.                                                        *)
C16_AbstractLocals ==
    lc_abs.done =>
        LET names == {mlocal_name(lc_abs.locals[j]) : j \in 1..Len(lc_abs.locals)} IN
        /\ LocalNames(lc_abs.r) \cap names = {}
        /\ LocalNames(lc_abs.e) \cap names = {} => lc_abs.r = lc_abs.e
        /\ lc_abs.rr = lc_abs.r
        /\ VarsOf(lc_abs.e) = {} => instantiate(lc_abs.r, lc_abs.locals, 0) = lc_abs.e

C16_Witness ==
    /\ lc_abs.done
    /\ lc_abs.locals = <<LZ, LY, LX>>
    /\ lc_abs.e = mk_pi("j", CA, mk_app(mk_app(CQ, LY), mk_app(mk_var(0), LZ)))
    /\ lc_abs.r = mk_pi("j", CA, mk_app(mk_app(CQ, mk_var(2)), mk_app(mk_var(0), mk_var(1))))

(***************************************************************************)
(* Properties of the memory pool.                                          *)
(***************************************************************************)
(* C17: when only blocks obtained from the pool and held by the caller are *)
(* recycled, recycle(b) immediately followed by allocate() returns b and   *)
(* leaves the free list as it was before the recycle; recycle puts the     *)
(* block in front of the free list and allocate() takes the front block,   *)
(* so blocks come back last-recycled first; allocate() on an empty free    *)
(* list leaves it empty.                                                   *)
C17_RecycleThenAllocate ==
    /\ (mp_last.op = "allocate" /\ mp_prev.op = "recycle") =>
          /\ mp_last.blk = mp_prev.blk
          /\ FreeNow = mp_prev.free
    /\ mp_last.op = "recycle" => FreeNow = <<mp_last.blk>> \o mp_last.free
    /\ (mp_last.op = "allocate" /\ mp_last.free # <<>>) =>
          /\ mp_last.blk = Head(mp_last.free)
          /\ FreeNow = Tail(mp_last.free)
    /\ (mp_last.op = "allocate" /\ mp_last.free = <<>>) =>
          /\ FreeNow = <<>>
          /\ m_free_list = 0

C17_Witness ==
    /\ mp_last.op = "allocate"
    /\ mp_prev.op = "recycle"
    /\ Len(mp_prev.free) = 2
    /\ mp_last.blk = mp_prev.blk
    /\ FreeNow = mp_prev.free

Range(s) == {s[j] : j \in 1..Len(s)}

(* the declared locals of the input, each once *)
SortedAreDeclaredInput(c) ==
    /\ Range(c.r) = {l \in Range(c.input) : is_local_decl(pu_p, l)}
    /\ Len(c.r) = Cardinality(Range(c.r))

SameGroup(l1, l2) == is_local_variable(pu_p, l1) <=> is_local_variable(pu_p, l2)

(* C18 as stated: sort_locals returns the declared input locals, each      *)
(* once, every variable before every non-variable local, each group by     *)
(* ascending declaration index.                                            *)
C18_Original ==
    pu_sort.done =>
       /\ SortedAreDeclaredInput(pu_sort)
       /\ \A j1, j2 \in 1..Len(pu_sort.r) : j1 < j2 =>
             \/ is_local_variable(pu_p, pu_sort.r[j1]) /\ ~is_local_variable(pu_p, pu_sort.r[j2])
             \/ /\ SameGroup(pu_sort.r[j1], pu_sort.r[j2])
                /\ get_local_index(pu_p, pu_sort.r[j1]) < get_local_index(pu_p, pu_sort.r[j2])

(* C18: sort_locals returns the declared input locals, each once, every    *)
(* non-variable local before every variable, each group by ascending       *)
(* declaration index.                                                      *)
C18_NonVariablesFirst ==
    pu_sort.done =>
       /\ SortedAreDeclaredInput(pu_sort)
       /\ \A j1, j2 \in 1..Len(pu_sort.r) : j1 < j2 =>
             \/ ~is_local_variable(pu_p, pu_sort.r[j1]) /\ is_local_variable(pu_p, pu_sort.r[j2])
             \/ /\ SameGroup(pu_sort.r[j1], pu_sort.r[j2])
                /\ get_local_index(pu_p, pu_sort.r[j1]) < get_local_index(pu_p, pu_sort.r[j2])

C18_Witness ==
    /\ pu_sort.done
    /\ Len(pu_sort.input) = 4
    /\ pu_sort.input[1] = Ub
    /\ pu_sort.r = <<Ua, Uc, Ub>>
    /\ is_local_variable(pu_p, Ub)

(* C19 as stated: locals_to_context returns the collection collect_locals  *)
(* gathers for the term, in the reverse of the sort_locals order, and its  *)
(* first element is the earliest-declared local.                           *)
C19_Original ==
    pu_ctx.done =>
       /\ Range(pu_ctx.r) = Range(collect_locals(pu_ctx.e, pu_ctx.e, pu_p))
       /\ pu_ctx.r = Reverse(sort_locals(pu_ctx.input, pu_p))
       /\ \A j \in 1..Len(pu_ctx.r) :
             get_local_index(pu_p, pu_ctx.r[1]) <= get_local_index(pu_p, pu_ctx.r[j])

(* C19: locals_to_context returns, each once, the declared locals that     *)
(* occur in the term outside tactic blocks: a part of what collect_locals  *)
(* gathers for the term, all of it when the parser has no include          *)
(* variables.  The order is the reverse of the sort_locals order:          *)
(* variables first, then non-variables, each group by descending           *)
(* declaration index.                                                      *)
C19_ReverseOfSortOrder ==
    pu_ctx.done =>
       /\ Range(pu_ctx.r) =
             {l \in collect_locals_ignoring_tactics(pu_ctx.e) : is_local_decl(pu_p, l)}
       /\ Len(pu_ctx.r) = Cardinality(Range(pu_ctx.r))
       /\ Range(pu_ctx.r) \subseteq Range(collect_locals(pu_ctx.e, pu_ctx.e, pu_p))
       /\ pu_p.include = <<>> =>
             Range(pu_ctx.r) = Range(collect_locals(pu_ctx.e, pu_ctx.e, pu_p))
       /\ \A j1, j2 \in 1..Len(pu_ctx.r) : j1 < j2 =>
             \/ is_local_variable(pu_p, pu_ctx.r[j1]) /\ ~is_local_variable(pu_p, pu_ctx.r[j2])
             \/ /\ SameGroup(pu_ctx.r[j1], pu_ctx.r[j2])
                /\ get_local_index(pu_p, pu_ctx.r[j1]) > get_local_index(pu_p, pu_ctx.r[j2])

C19_Witness ==
    /\ pu_ctx.done
    /\ pu_p.include = <<Uc>>
    /\ pu_ctx.r = <<Ua, Ud, Ub>>
    /\ Uc \in Range(collect_locals(pu_ctx.e, pu_ctx.e, pu_p))

(* the constant and the arguments of a reference, or of the bare constant *)
RefConst(e) == IF e.k = "as_atomic" THEN get_app_fn(e.a[1]).a[1] ELSE e

RefArgs(e) ==
    IF e.k = "as_atomic"
    THEN [j \in 1..Len(get_app_args(e.a[1])) |-> get_app_args(e.a[1])[j].a[1]]
    ELSE <<>>

KeptParams(c) ==
    FilterSeq(c.input, [j \in 1..Len(c.input) |-> mlocal_name(c.input[j]) \notin c.locals])

(* what update_local_ref does to the params, and with both sets empty *)
ParamsFiltered(c) ==
    /\ RefArgs(c.re) = KeptParams(c)
    /\ RefConst(c.re).k = "const"
    /\ RefConst(c.re).s = RefConst(c.e).s
    /\ KeptParams(c) = <<>> => c.re = RefConst(c.re)
    /\ KeptParams(c) # <<>> =>
          c.re = mk_local_ref(RefConst(c.e).s, RefConst(c.re).ls, KeptParams(c))
    /\ (c.lvls = {} /\ c.locals = {}) => c.re = c.e

(* C20 as stated: update_local_ref keeps exactly the params not named, in  *)
(* order, gives the bare constant when none remains, drops exactly the     *)
(* named level parameters keeping every other level, and returns its input *)
(* when both sets are empty.                                               *)
C20_Original ==
    pu_ref.done =>
       /\ ParamsFiltered(pu_ref)
       /\ RefConst(pu_ref.re).ls =
             FilterSeq(pu_ref.r, [j \in 1..Len(pu_ref.r) |->
                          ~(is_param(pu_ref.r[j]) /\ pu_ref.r[j].s \in pu_ref.lvls)])

(* C20: update_local_ref keeps exactly the params not named, in order,     *)
(* gives the bare constant when none remains, and returns its input when   *)
(* both sets are empty.  With a non-empty set of level names it keeps the  *)
(* placeholders and the level parameters not named and drops every other   *)
(* level; with an empty set of level names the levels stay as they are.    *)
C20_UpdateLocalRef ==
    pu_ref.done =>
       /\ ParamsFiltered(pu_ref)
       /\ pu_ref.lvls = {} => RefConst(pu_ref.re).ls = pu_ref.r
       /\ pu_ref.lvls # {} =>
             RefConst(pu_ref.re).ls =
                FilterSeq(pu_ref.r, [j \in 1..Len(pu_ref.r) |->
                             \/ is_placeholder(pu_ref.r[j])
                             \/ is_param(pu_ref.r[j]) /\ pu_ref.r[j].s \notin pu_ref.lvls])

C20_Witness ==
    /\ pu_ref.done
    /\ pu_ref.lvls = {"u"}
    /\ pu_ref.locals = {"a"}
    /\ pu_ref.input = <<Ub, Uc, Ua>>
    /\ pu_ref.r = <<mk_param_univ("u"), LvlPlaceholder, mk_param_univ("v")>>
    /\ RefConst(pu_ref.re).ls = <<LvlPlaceholder, mk_param_univ("v")>>
    /\ RefArgs(pu_ref.re) = <<Ub, Uc>>

(* C21 as stated: is_local_ref holds of mk_local_ref(n, levels, params)    *)
(* for every name, level list and list of local params, the empty list     *)
(* included, and of no term of another shape.                              *)
C21_Original ==
    el_call.op = "is_local_ref" =>
       (el_call.b <=> el_call.e \in RefsBuilt(RefParams \cup {<<>>}))

(* C21: is_local_ref holds of mk_local_ref(n, levels, params) for every    *)
(* name, level list and non-empty list of local params; it holds of no     *)
(* other term, the reference built with no param included.                 *)
C21_NonEmptyRefsRecognized ==
    el_call.op = "is_local_ref" => (el_call.b <=> el_call.e \in RefsBuilt(RefParams))

C21_Witness ==
    /\ el_call.op = "is_local_ref"
    /\ el_call.e = mk_local_ref("f", <<mk_param_univ("u"), LvlZero>>, <<Ua, Ub>>)
    /\ el_call.b

(* the value of a level under an assignment of its parameters *)
RECURSIVE LevelValue(_, _)
LevelValue(l, sigma) ==
    CASE l.k = "zero"  -> 0
      [] l.k = "succ"  -> LevelValue(l.a[1], sigma) + 1
      [] l.k = "max"   -> IF LevelValue(l.a[1], sigma) >= LevelValue(l.a[2], sigma)
                          THEN LevelValue(l.a[1], sigma) ELSE LevelValue(l.a[2], sigma)
      [] OTHER         -> sigma[l.s]

Assignments == [{"u", "v"} -> 0..2]

MaxValue(lvls, sigma) ==
    CHOOSE n \in {LevelValue(lvls[j], sigma) : j \in 1..Len(lvls)} :
       \A j \in 1..Len(lvls) : LevelValue(lvls[j], sigma) <= n

(* C22: mk_result_level gives 1 (impredicative) or 0 (predicative) for no  *)
(* domain level and for the single domain level 0; for a non-empty list it *)
(* gives, when predicative, the maximum of the levels in normal form, and  *)
(* when impredicative a level that is at least 1 under every assignment    *)
(* of the parameters and equal to the maximum wherever the maximum is not  *)
(* zero.                                                                   *)
C22_ResultLevel ==
    el_call.op = "mk_result_level" =>
       /\ el_call.lvls \in {<<>>, <<mk_level_zero>>} =>
             el_call.r = IF el_call.imp THEN mk_level_one ELSE mk_level_zero
       /\ (el_call.lvls # <<>> /\ ~el_call.imp) =>
             /\ normalize_level(el_call.r) = el_call.r
             /\ \A sigma \in Assignments :
                   LevelValue(el_call.r, sigma) = MaxValue(el_call.lvls, sigma)
       /\ (el_call.lvls # <<>> /\ el_call.imp) =>
             \A sigma \in Assignments :
                /\ LevelValue(el_call.r, sigma) >= 1
                /\ MaxValue(el_call.lvls, sigma) >= 1 =>
                      LevelValue(el_call.r, sigma) = MaxValue(el_call.lvls, sigma)

C22_Witness ==
    /\ el_call.op = "mk_result_level"
    /\ el_call.imp
    /\ el_call.lvls = <<mk_param_univ("u"), mk_level_zero>>
    /\ LevelValue(el_call.r, [n \in {"u", "v"} |-> 0]) = 1
    /\ LevelValue(el_call.r, [n \in {"u", "v"} |-> 2]) = 2

(* the universe metavariables in a level, and in the sorts and constants of a term *)
RECURSIVE MetasOfLevel(_)
MetasOfLevel(l) ==
    (IF is_meta(l) THEN {l.s} ELSE {}) \cup UNION {MetasOfLevel(l.a[j]) : j \in 1..Len(l.a)}

RECURSIVE MetasOf(_)
MetasOf(e) ==
    UNION {MetasOfLevel(e.ls[j]) : j \in 1..Len(e.ls)}
    \cup UNION {MetasOf(e.a[j]) : j \in 1..Len(e.a)}

(* every occurrence of an assigned metavariable replaced by its level *)
RECURSIVE WithLevels(_, _)
WithLevels(l, subst) ==
    IF is_meta(l) THEN (IF subst[l.s].ok THEN subst[l.s].val ELSE l)
    ELSE [l EXCEPT !.a = [j \in 1..Len(l.a) |-> WithLevels(l.a[j], subst)]]

RECURSIVE WithLevelsIn(_, _)
WithLevelsIn(e, subst) ==
    [e EXCEPT !.ls = [j \in 1..Len(e.ls) |-> WithLevels(e.ls[j], subst)],
              !.a  = [j \in 1..Len(e.a) |-> WithLevelsIn(e.a[j], subst)]]

ParamNames(st) == {st.new_params[j] : j \in 1..Len(st.new_params)}

(* C23: for every term and substitution the returned term has no universe  *)
(* metavariable in a sort or constant; each one has been replaced by a     *)
(* named parameter, the same for repeated occurrences.                     *)
C23_NoUniverseMetavariable ==
    el_call.op = "univ_metavars_to_params" =>
       /\ MetasOf(el_call.re) = {}
       /\ \A m \in MetasOf(el_call.e) :
             el_call.st.subst[m].ok /\ is_param(el_call.st.subst[m].val)
       /\ el_call.re = WithLevelsIn(el_call.e, el_call.st.subst)

(* What the pass does achieve: every universe metavariable the            *)
(* substitution did not assign is replaced by a named parameter minted in  *)
(* the pass, the same parameter for repeated occurrences and different     *)
(* parameters for different metavariables, and the substitution now maps   *)
(* it to that parameter; a metavariable the substitution assigned is       *)
(* replaced by the assigned level as it is, metavariables included.        *)
UnassignedPromoted ==
    el_call.op = "univ_metavars_to_params" =>
       /\ el_call.re = WithLevelsIn(el_call.e, el_call.st.subst)
       /\ \A m \in MetasOf(el_call.e) :
             /\ el_call.st.subst[m].ok
             /\ el_call.st0.subst[m].ok => el_call.st.subst[m] = el_call.st0.subst[m]
             /\ ~el_call.st0.subst[m].ok =>
                   /\ is_param(el_call.st.subst[m].val)
                   /\ el_call.st.subst[m].val.s \in ParamNames(el_call.st)
                   /\ \A m2 \in MetasOf(el_call.e) \ {m} :
                         el_call.st.subst[m2] # el_call.st.subst[m]
       /\ (\A m \in MetasOf(el_call.e) :
              el_call.st0.subst[m].ok => ~has_meta(el_call.st0.subst[m].val))
             => MetasOf(el_call.re) = {}

(* C24: every name minted in a pass is l_<n> for its index n, is none of   *)
(* the names in the parameter set, the local levels and the global         *)
(* universes at the time it is minted, and differs from every other name   *)
(* minted in the pass; the indexes of successive minted names increase;    *)
(* every minted name is in the parameter set and the minted names are, in  *)
(* order, what the pass appended to the list.                              *)
C24_FreshNames ==
    el_call.op = "univ_metavars_to_params" =>
       LET mints == el_call.st.log
       IN /\ \A j \in 1..Len(mints) :
                /\ mints[j].name = "l_" \o ToString(mints[j].idx)
                /\ mints[j].name \notin mints[j].avoided
                /\ mints[j].name \notin
                      el_call.st0.params \cup el_call.st0.lls \cup el_call.st0.univs
                /\ mints[j].name \in el_call.st.params
                /\ \A j2 \in 1..Len(mints) :
                      j < j2 => mints[j].name # mints[j2].name /\ mints[j].idx < mints[j2].idx
          /\ el_call.st.new_params = [j \in 1..Len(mints) |-> mints[j].name]
          /\ el_call.st.params = el_call.st0.params \cup ParamNames(el_call.st)

C24_Witness ==
    /\ el_call.op = "univ_metavars_to_params"
    /\ el_call.st0.params = {"u", "l_2"}
    /\ el_call.st0.lls = {"l_1"}
    /\ el_call.st0.univs = {}
    /\ el_call.st.new_params = <<"l_3", "l_4">>

(* the positions at or after the start that hold the keyword "end" *)
EndsFrom ==
    {j \in sc_from..Len(sc_toks) : sc_toks[j] = ScTok("Keyword", "end")}

LeftAfterFirstEnd ==
    sc_pc = "done" =>
       IF EndsFrom # {}
       THEN \A j \in EndsFrom : sc_pos <= j + 1 /\ sc_pos - 1 \in EndsFrom
       ELSE sc_pos = Len(sc_toks) + 1

(* C25: on every finite token stream consume_until_end terminates; it      *)
(* leaves the parser right after the first keyword "end" at or after the   *)
(* token it started at, and at end-of-input, not beyond, when there is     *)
(* none.                                                                   *)
C25_ConsumeUntilEnd == <>(sc_pc = "done") /\ []LeftAfterFirstEnd

C25_Witness ==
    /\ sc_pc = "done"
    /\ sc_toks = <<ScTok("Identifier", "end"), ScTok("Keyword", "end"), ScTok("Keyword", "end")>>
    /\ sc_from = 1
    /\ sc_pos = 3

(* add_local on the elements of a list, last to first, from the empty context *)
RECURSIVE AddAll(_)
AddAll(ctx) ==
    IF ctx = <<>> THEN Ctx(<<>>, <<>>) ELSE add_local(AddAll(Tail(ctx)), Head(ctx))

(* C28: the context built from a list (most recently added first) has the  *)
(* concrete and abstracted sequences that add_local gives when called,     *)
(* from the empty context, on the elements of the list from last to first; *)
(* this holds of the context a constructor built and stays so after every  *)
(* add_local.                                                              *)
C28_SetCtxIsAddLocals ==
    /\ set_ctx(m_ctx) = AddAll(m_ctx)
    /\ CtxNow = set_ctx(m_ctx)

C28_Witness ==
    /\ m_ctx = <<LZ, LY, LX>>
    /\ CtxNow = set_ctx(<<LZ, LY, LX>>)
    /\ CtxNow = add_local(set_ctx(<<LY, LX>>), LZ)
    /\ m_ctx_abstracted[1] # LZ

(***************************************************************************)
(* Properties of a single search and of a single application.              *)
(***************************************************************************)
IsSearch == ap_call.op = "find_target"

IsApplication == ap_call.op \in {"rewrite", "fold", "reduce"}

(* the type the search of ap_call ran on *)
Searched == TargetType(ap_call.w0.g, ap_call.target)

(* candidate t matches the pattern syntactically and the rule unifies with *)
(* it leaving no metavariable                                              *)
Unifies(t, elem) ==
    /\ t.sym = get_pattern(elem)
    /\ FullNorm(t.sym) = FullNorm(RuleSrc(elem))
    /\ t.u \in {"ok", "assign", "symm_exc"}

Unifiable == {p \in 1..Len(Searched.args) : Unifies(Searched.args[p], ap_call.elem)}

LatestTarget == ap_call.w.targs[Len(ap_call.w.targs)]

(* C26: find_target returns the first subterm, in traversal order, that    *)
(* matches the pattern and with which the rule unifies leaving no          *)
(* metavariable; it returns nothing when there is none, and it tries no    *)
(* subterm after the one it returns.                                       *)
C26_FirstUnifiableIsTheMatch ==
    IsSearch =>
        /\ Unifiable = {} => ap_call.pos = 0
        /\ Unifiable # {} =>
              /\ ap_call.pos \in Unifiable
              /\ \A p \in Unifiable : ap_call.pos <= p
        /\ (ap_call.use_trace /\ ap_call.pos # 0) =>
              \A k \in 1..Len(LatestTarget.failures) :
                  LatestTarget.failures[k].pos < ap_call.pos

(* C29: a search in which every candidate failed leaves the substitution   *)
(* and the working goal as they were; an application that rewrites no      *)
(* target leaves goal, hypotheses and substitution unchanged.               *)
C29_FailedAttemptLeavesState ==
    /\ (IsSearch /\ ap_call.pos = 0) =>
          /\ ap_call.w.subst = ap_call.w0.subst
          /\ ap_call.w.g = ap_call.w0.g
    /\ (IsApplication /\ ~ap_call.ok) =>
          /\ ap_call.w.subst = ap_call.w0.subst
          /\ ap_call.w.g = ap_call.w0.g

(* C30: with tracing enabled a target trace holds at most one match; no    *)
(* failure and no second match is recorded on a trace that already holds a *)
(* match (the assertions of add_target_failure and add_target_match hold), *)
(* and every record goes to an existing target trace.                      *)
C30_TraceHoldsOneMatch ==
    ap_call.use_trace =>
        /\ \A k \in 1..Len(ap_call.w.targs) : ~ap_call.w.targs[k].asserted
        /\ IsSearch => Len(ap_call.w.targs) = 1

(* the targets a location selects in goal g: the selected hypotheses in *)
(* the order of g's hypotheses, then the goal when it is selected       *)
SelectedHyps(g, loc) ==
    IF is_goal_only(loc) THEN {}
    ELSE {k \in 1..Len(g.hyps) : includes_hypothesis(loc, g.hyps[k].name).some}

GoalSelected(loc) == is_goal_only(loc) \/ includes_goal(loc).some

RECURSIVE NamesFrom(_, _, _)
NamesFrom(g, loc, k) ==
    IF k > Len(g.hyps) THEN IF GoalSelected(loc) THEN <<"goal">> ELSE <<>>
    ELSE IF k \in SelectedHyps(g, loc) THEN <<g.hyps[k].name>> \o NamesFrom(g, loc, k + 1)
    ELSE NamesFrom(g, loc, k + 1)

(* the operation of ap_call applied to one target alone, from the state *)
(* the application started in                                           *)
AloneHyp(k) ==
    LET w0   == ap_call.w0
        elem == ap_call.elem
        h    == w0.g.hyps[k]
        occ  == includes_hypothesis(elem.loc, h.name)
    IN  CASE ap_call.op = "rewrite" ->
                 process_rewrite_hypothesis(w0, h, elem, get_pattern(elem), occ, FALSE)
          [] ap_call.op = "fold" -> process_fold_hypothesis(w0, h, elem.fold, occ)
          [] OTHER -> IF elem.nargs = 0 THEN process_reduce_hypothesis(w0, h, {})
                                        ELSE process_reduce_to_hypothesis(w0, h, elem.e)

AloneGoal ==
    LET w0   == ap_call.w0
        elem == ap_call.elem
        occ  == includes_goal(elem.loc)
    IN  CASE ap_call.op = "rewrite" ->
                 process_rewrite_goal(w0, elem, get_pattern(elem), occ, FALSE)
          [] ap_call.op = "fold" -> process_fold_goal(w0, elem.fold, occ)
          [] OTHER -> IF elem.nargs = 0 THEN process_reduce_goal(w0, {})
                                        ELSE process_reduce_to_goal(w0, elem.e)

(* C27: an application with several targets processes the selected         *)
(* hypotheses in the goal's hypothesis order and the goal last; it         *)
(* succeeds exactly when at least one target was transformed, and every    *)
(* target ends as it would alone: transformed when its own processing      *)
(* succeeds, untouched otherwise, whatever happened to the other targets.  *)
C27_TargetsInOrderAnySuccess ==
    IsApplication =>
        LET g0   == ap_call.w0.g
            loc  == ap_call.elem.loc
            selH == SelectedHyps(g0, loc)
            okG  == GoalSelected(loc) /\ AloneGoal.ok
        IN  /\ ap_call.ok <=> ((\E k \in selH : AloneHyp(k).ok) \/ okG)
            /\ Len(ap_call.w.g.hyps) = Len(g0.hyps)
            /\ \A k \in 1..Len(g0.hyps) :
                  ap_call.w.g.hyps[k] =
                      IF k \in selH /\ AloneHyp(k).ok THEN AloneHyp(k).w.g.hyps[k]
                                                     ELSE g0.hyps[k]
            /\ ap_call.w.g.type = IF okG THEN AloneGoal.w.g.type ELSE g0.type
            /\ (ap_call.op = "rewrite" /\ ap_call.use_trace) =>
                  /\ Len(ap_call.w.targs) = Len(NamesFrom(g0, loc, 1))
                  /\ \A k \in 1..Len(ap_call.w.targs) :
                        /\ ap_call.w.targs[k].target = NamesFrom(g0, loc, 1)[k]
                        /\ ap_call.w.targs[k].is_hyp <=> k <= Cardinality(selH)

C27_Witness ==
    /\ ap_call.op = "rewrite" /\ ap_call.use_trace /\ ap_call.ok
    /\ Len(ap_call.w.targs) = 3
    /\ ap_call.w.targs[1].matched # 0
    /\ ap_call.w.targs[2].matched = 0
    /\ ap_call.w.targs[3].matched # 0
    /\ ap_call.w.g.hyps[1] # ap_call.w0.g.hyps[1]
    /\ ap_call.w.g.hyps[2] = ap_call.w0.g.hyps[2]
    /\ ap_call.w.g.type # ap_call.w0.g.type

====
